---- MODULE Spec2Model ----
(***************************************************************************)
(* Model of the GolStats application: the persistence gateway              *)
(* (services/db.ts, both variants), the statistics aggregators of the two  *)
(* App variants, and the match lifecycle handlers of App.tsx.              *)
(*                                                                         *)
(* Identifiers are decimal strings in the program (Date.now().toString()); *)
(* the model writes them as the naturals they spell.  Dates are ISO-8601   *)
(* strings with millisecond precision; the model writes a date as the      *)
(* millisecond count new Date(date).getTime() gives back.                  *)
(***************************************************************************)
EXTENDS Integers, Sequences, FiniteSets, TLC

VARIABLES
    fpc,      \* position of the pure-function harness: "in" or "out"
    fin,      \* the input handed to the function under study
    fout,     \* what the function returned
    cfg,      \* the two configuration strings, as the startup code reads them
    supabase, \* the module-level client handle: "null" or "client"
    ls,       \* browser-local storage: the two keys of LS_KEYS
    rdb,      \* the remote tables players and matches, rows <<id, json>>
    call,     \* the gateway call that has just settled: what was asked and how it ended
    inflight, \* the gateway calls that have been made and have not settled, oldest first
    players,          \* App state: the in-memory player list
    matches,          \* App state: the in-memory match list
    isLoading,        \* App state: TRUE until loadData has settled
    activeTab,        \* App state: the view on screen
    activeMatchId,    \* App state: null (Absent) or the identifier of the live match
    draftHomeIds,     \* App state: the home list of the draft
    draftAwayIds,     \* App state: the away list of the draft
    editingPlayerId,  \* App state: null (Absent) or the player being edited
    editFormData,     \* App state: {} (Absent) or the fields of the edit form
    generatingReport, \* App state: TRUE while finishMatch is running
    pending,  \* handler executions suspended at an await, oldest first
    now,      \* what Date.now() returns, in milliseconds
    faults,   \* how many remote calls have been answered with an error
    ai        \* geminiService's module-level client: TRUE when API_KEY was set

fvars == <<fpc, fin, fout>>
dbvars == <<cfg, supabase, ls, rdb, call, inflight>>
memvars == <<players, matches, isLoading, activeTab, activeMatchId, draftHomeIds,
             draftAwayIds, editingPlayerId, editFormData, generatingReport>>
appvars == <<memvars, pending, now, faults, ai>>
vars == <<fpc, fin, fout, cfg, supabase, ls, rdb, call, inflight, players, matches, isLoading,
          activeTab, activeMatchId, draftHomeIds, draftAwayIds, editingPlayerId,
          editFormData, generatingReport, pending, now, faults, ai>>

\* An optional field holds <<>> when the key is not there (JavaScript
\* undefined) and <<v>> when it holds v.
Absent == <<>>
Some(v) == <<v>>

\* ------------------------------------------------------------------ types.ts
PosGK == "Portero"
PosDEF == "Defensa"
PosMID == "Mediocampista"
PosFWD == "Delantero"
Position == {PosGK, PosDEF, PosMID, PosFWD}

GOAL == "Gol"
ASSIST == "Asistencia"

\* ------------------------------------------------------------ helper algebra
Range(s) == {s[i] : i \in 1..Len(s)}

\* The array with elements f[1], ..., f[n].
RECURSIVE ArrayOf(_, _)
ArrayOf(f, n) == IF n = 0 THEN <<>> ELSE Append(ArrayOf(f, n - 1), f[n])

\* The array without its i-th element.
RemoveAt(s, i) == SubSeq(s, 1, i - 1) \o SubSeq(s, i + 1, Len(s))

\* x || 0 followed by Number(): an absent (or zero) counter counts as 0.
NumberOr0(x) == IF x = Absent THEN 0 ELSE IF x[1] = 0 THEN 0 ELSE x[1]

\* ------------------------------------------------- Array.prototype.sort (V8)
\* V8 sorts with TimSort; below 64 elements the minimum run length is the
\* whole array, so the sort is: find the leading run (reversing it when it is
\* strictly descending), then binary-insert the remaining elements.
\* cmp[x, y] is the comparator's result on (x, y).
RECURSIVE RunEnd(_, _, _, _)
RunEnd(a, cmp, idx, isDescending) ==
    IF idx > Len(a) THEN idx - 1
    ELSE LET order == cmp[a[idx], a[idx - 1]] IN
         IF (isDescending /\ order >= 0) \/ (~isDescending /\ order < 0)
         THEN idx - 1
         ELSE RunEnd(a, cmp, idx + 1, isDescending)

ReverseRange(a, from, to) ==
    ArrayOf([i \in 1..Len(a) |->
                IF i >= from /\ i <= to THEN a[from + to - i] ELSE a[i]], Len(a))

\* <<array after making the run ascending, run length>>
CountAndMakeRun(a, cmp) ==
    IF Len(a) = 1 THEN <<a, 1>>
    ELSE LET isDescending == cmp[a[2], a[1]] < 0
             last == RunEnd(a, cmp, 3, isDescending)
         IN  <<IF isDescending THEN ReverseRange(a, 1, last) ELSE a, last>>

RECURSIVE BinarySearch(_, _, _, _, _)
BinarySearch(a, cmp, pivot, left, right) ==
    IF left < right
    THEN LET mid == left + ((right - left) \div 2) IN
         IF cmp[pivot, a[mid]] < 0
         THEN BinarySearch(a, cmp, pivot, left, mid)
         ELSE BinarySearch(a, cmp, pivot, mid + 1, right)
    ELSE left

InsertAt(a, start, left) ==
    ArrayOf([i \in 1..Len(a) |->
                IF i < left \/ i > start THEN a[i]
                ELSE IF i = left THEN a[start] ELSE a[i - 1]], Len(a))

RECURSIVE BinaryInsertionSort(_, _, _)
BinaryInsertionSort(a, cmp, start) ==
    IF start > Len(a) THEN a
    ELSE BinaryInsertionSort(
             InsertAt(a, start, BinarySearch(a, cmp, a[start], 1, start)),
             cmp, start + 1)

ArraySort(a, cmp) ==
    IF Len(a) < 2 THEN a
    ELSE LET run == CountAndMakeRun(a, cmp) IN
         BinaryInsertionSort(run[1], cmp, run[2] + 1)

\* --------------------------------------------- services/db.ts (hybrid variant)
\* A selection that looks at the URL alone.
isSupabaseConfiguredUrlOnly(c) == c.urlHttps
\* SUPABASE_URL.startsWith('https://') && SUPABASE_KEY.length > 0
isSupabaseConfigured(c) == c.urlHttps /\ c.keySet

\* localStorage.getItem gives null for a key never set; a key that was set
\* holds the JSON text of an array.  <<>> is null, <<arr>> is the text of arr.
Null == <<>>

\* JSON.stringify / JSON.parse of an entity array.  An entity the handlers
\* build holds strings, finite integers, booleans and arrays of these, and an
\* optional key is either missing or holds a value; JSON text keeps all of
\* that, a missing key stays missing, and the array order is kept.
JSONstringify(arr) == <<arr>>
JSONparse(text) == text[1]

\* stored ? JSON.parse(stored) : []
ParseOrEmpty(stored) == IF stored = Null THEN <<>> ELSE JSONparse(stored)

\* How a gateway call ends: the stores after it, resolved or rejected, and
\* the value a list operation resolves to.
Resolved(l, r, v) == [ls |-> l, rdb |-> r, outcome |-> "resolved", value |-> v]
\* supabase is null and .from() is read off it: the async function rejects
\* with a TypeError before anything is stored.
Rejected(l, r) == [ls |-> l, rdb |-> r, outcome |-> "rejected", value |-> <<>>]

\* The remote row store: one row per identifier, the entity in column json.
HasRow(table, id) == \E i \in 1..Len(table) : table[i].id = id
\* .insert(row): a row whose key is taken is refused with an error.
SupabaseInsert(table, row) == Append(table, row)
\* .update({json}).eq('id', id)
SupabaseUpdate(table, id, json) ==
    ArrayOf([i \in 1..Len(table) |->
                IF table[i].id = id THEN [id |-> id, json |-> json] ELSE table[i]],
            Len(table))
\* .delete().eq('id', id)
SupabaseDelete(table, id) == SelectSeq(table, LAMBDA row : row.id # id)
\* .select('json') then data.map(row => row.json)
SupabaseSelectJson(table) ==
    ArrayOf([i \in 1..Len(table) |-> table[i].json], Len(table))

\* players.findIndex(p => p.id === id), 0 standing for -1
FindIndex(arr, id) ==
    IF \E i \in 1..Len(arr) : arr[i].id = id
    THEN CHOOSE i \in 1..Len(arr) :
            arr[i].id = id /\ \A j \in 1..(i - 1) : arr[j].id # id
    ELSE 0

\* new Date(b.date).getTime() - new Date(a.date).getTime()
DateCompare(a, b) == b.date - a.date

\* The array as stored, not sorted.
StoredOrder(arr) == arr
SortByDate(arr) ==
    ArraySort(arr, [x \in Range(arr), y \in Range(arr) |-> DateCompare(x, y)])

\* err: the remote call came back with { error }.
getAllPlayers(c, sb, l, r, err) ==
    IF ~isSupabaseConfigured(c)
    THEN Resolved(l, r, ParseOrEmpty(l.players))
    ELSE IF sb = "null" THEN Rejected(l, r)
    ELSE IF err THEN Resolved(l, r, <<>>)
    ELSE Resolved(l, r, SupabaseSelectJson(r.players))

\* Mutant of addPlayer: the local branch stores the new player alone, without
\* reading back what was stored.
addPlayerOverwrite(c, sb, l, r, player, err) ==
    IF ~isSupabaseConfigured(c)
    THEN Resolved([l EXCEPT !.players = JSONstringify(<<player>>)], r, <<>>)
    ELSE IF sb = "null" THEN Rejected(l, r)
    ELSE IF err \/ HasRow(r.players, player.id) THEN Resolved(l, r, <<>>)
    ELSE Resolved(l, [r EXCEPT !.players =
                SupabaseInsert(@, [id |-> player.id, json |-> player])], <<>>)

addPlayer(c, sb, l, r, player, err) ==
    IF ~isSupabaseConfigured(c)
    THEN LET list == Append(getAllPlayers(c, sb, l, r, FALSE).value, player)
         IN  Resolved([l EXCEPT !.players = JSONstringify(list)], r, <<>>)
    ELSE IF sb = "null" THEN Rejected(l, r)
    ELSE IF err \/ HasRow(r.players, player.id) THEN Resolved(l, r, <<>>)
    ELSE Resolved(l, [r EXCEPT !.players =
                SupabaseInsert(@, [id |-> player.id, json |-> player])], <<>>)

updatePlayer(c, sb, l, r, player, err) ==
    IF ~isSupabaseConfigured(c)
    THEN LET list == getAllPlayers(c, sb, l, r, FALSE).value
             index == FindIndex(list, player.id)
         IN  IF index # 0
             THEN Resolved([l EXCEPT !.players =
                      JSONstringify([list EXCEPT ![index] = player])], r, <<>>)
             ELSE Resolved(l, r, <<>>)
    ELSE IF sb = "null" THEN Rejected(l, r)
    ELSE IF err THEN Resolved(l, r, <<>>)
    ELSE Resolved(l, [r EXCEPT !.players =
                SupabaseUpdate(@, player.id, player)], <<>>)

\* Mutant of deletePlayer: the local branch removes only the first player
\* found with the identifier (findIndex and splice instead of filter).
deletePlayerFirst(c, sb, l, r, id, err) ==
    IF ~isSupabaseConfigured(c)
    THEN LET list == getAllPlayers(c, sb, l, r, FALSE).value
             index == FindIndex(list, id)
             filtered == IF index = 0 THEN list
                         ELSE SubSeq(list, 1, index - 1)
                                  \o SubSeq(list, index + 1, Len(list))
         IN  Resolved([l EXCEPT !.players = JSONstringify(filtered)], r, <<>>)
    ELSE IF sb = "null" THEN Rejected(l, r)
    ELSE IF err THEN Resolved(l, r, <<>>)
    ELSE Resolved(l, [r EXCEPT !.players = SupabaseDelete(@, id)], <<>>)

deletePlayer(c, sb, l, r, id, err) ==
    IF ~isSupabaseConfigured(c)
    THEN LET list == getAllPlayers(c, sb, l, r, FALSE).value
             filtered == SelectSeq(list, LAMBDA p : p.id # id)
         IN  Resolved([l EXCEPT !.players = JSONstringify(filtered)], r, <<>>)
    ELSE IF sb = "null" THEN Rejected(l, r)
    ELSE IF err THEN Resolved(l, r, <<>>)
    ELSE Resolved(l, [r EXCEPT !.players = SupabaseDelete(@, id)], <<>>)

getAllMatches(c, sb, l, r, err) ==
    IF ~isSupabaseConfigured(c)
    THEN Resolved(l, r, SortByDate(ParseOrEmpty(l.matches)))
    ELSE IF sb = "null" THEN Rejected(l, r)
    ELSE IF err THEN Resolved(l, r, <<>>)
    ELSE Resolved(l, r, SortByDate(SupabaseSelectJson(r.matches)))

addMatch(c, sb, l, r, match, err) ==
    IF ~isSupabaseConfigured(c)
    THEN LET list == Append(getAllMatches(c, sb, l, r, FALSE).value, match)
         IN  Resolved([l EXCEPT !.matches = JSONstringify(list)], r, <<>>)
    ELSE IF sb = "null" THEN Rejected(l, r)
    ELSE IF err \/ HasRow(r.matches, match.id) THEN Resolved(l, r, <<>>)
    ELSE Resolved(l, [r EXCEPT !.matches =
                SupabaseInsert(@, [id |-> match.id, json |-> match])], <<>>)

updateMatch(c, sb, l, r, match, err) ==
    IF ~isSupabaseConfigured(c)
    THEN LET list == getAllMatches(c, sb, l, r, FALSE).value
             index == FindIndex(list, match.id)
         IN  IF index # 0
             THEN Resolved([l EXCEPT !.matches =
                      JSONstringify([list EXCEPT ![index] = match])], r, <<>>)
             ELSE Resolved(l, r, <<>>)
    ELSE IF sb = "null" THEN Rejected(l, r)
    ELSE IF err THEN Resolved(l, r, <<>>)
    ELSE Resolved(l, [r EXCEPT !.matches =
                SupabaseUpdate(@, match.id, match)], <<>>)

deleteMatch(c, sb, l, r, id, err) ==
    IF ~isSupabaseConfigured(c)
    THEN LET list == getAllMatches(c, sb, l, r, FALSE).value
             filtered == SelectSeq(list, LAMBDA m : m.id # id)
         IN  Resolved([l EXCEPT !.matches = JSONstringify(filtered)], r, <<>>)
    ELSE IF sb = "null" THEN Rejected(l, r)
    ELSE IF err THEN Resolved(l, r, <<>>)
    ELSE Resolved(l, [r EXCEPT !.matches = SupabaseDelete(@, id)], <<>>)

\* dbService.<op> of the hybrid file, run from its first statement to its
\* last on the stores l and r.
hybridService(op, c, sb, l, r, arg, err) ==
    CASE op = "getAllPlayers" -> getAllPlayers(c, sb, l, r, err)
      [] op = "addPlayer"     -> addPlayer(c, sb, l, r, arg, err)
      [] op = "updatePlayer"  -> updatePlayer(c, sb, l, r, arg, err)
      [] op = "deletePlayer"  -> deletePlayer(c, sb, l, r, arg, err)
      [] op = "getAllMatches" -> getAllMatches(c, sb, l, r, err)
      [] op = "addMatch"      -> addMatch(c, sb, l, r, arg, err)
      [] op = "updateMatch"   -> updateMatch(c, sb, l, r, arg, err)
      [] op = "deleteMatch"   -> deleteMatch(c, sb, l, r, arg, err)

\* The key of LS_KEYS, and the table, an operation works on.
OpKind(op) ==
    IF op \in {"getAllPlayers", "addPlayer", "updatePlayer", "deletePlayer"}
    THEN "players" ELSE "matches"

\* A local mutation is `const x = await dbService.getAll...()` followed by
\* the change of x and localStorage.setItem.  getItem runs when the
\* operation is called; the statements after the await run in a later
\* microtask, on the text getItem gave.  SetsItem: whether they reach
\* setItem (add and delete always do, update when findIndex found the
\* identifier).
SetsItem(op, arg, text) ==
    \/ op \in {"addPlayer", "addMatch", "deletePlayer", "deleteMatch"}
    \/ /\ op \in {"updatePlayer", "updateMatch"}
       /\ \E i \in 1..Len(ParseOrEmpty(text)) : ParseOrEmpty(text)[i].id = arg.id
\* The local stores after the statements that follow the await: read is
\* localStorage as it was when the operation was called, l as it is now,
\* after the result of running the operation on read; setItem replaces the
\* text of the one key.
AfterAwait(op, arg, read, l, after) ==
    IF SetsItem(op, arg, read[OpKind(op)])
    THEN [l EXCEPT ![OpKind(op)] = after[OpKind(op)]]
    ELSE l

\* ------------------------------- matches variant: the statistics aggregator
\* The object s of stats, as the array Object.entries(s) gives: one entry
\* per key.  An identifier is the number its decimal string spells.  A key
\* that spells an array index (0 .. 2^32 - 2) is listed before every other
\* key, the array indices in ascending numeric order; the other keys (the
\* 13-digit strings of Date.now(), "-1") follow in insertion order.
\* id <= 4294967294, written so that no number above 2^31 - 1 is needed
IsArrayIndex(id) ==
    /\ id >= 0
    /\ \/ id \div 2 < 2147483647
       \/ (id \div 2 = 2147483647 /\ id % 2 = 0)
\* s[id] = rec
ObjectSet(s, id, rec) ==
    IF HasRow(s, id)
    THEN ArrayOf([i \in 1..Len(s) |-> IF s[i].id = id THEN rec ELSE s[i]], Len(s))
    ELSE IF IsArrayIndex(id)
    THEN LET before == SelectSeq(s, LAMBDA x : IsArrayIndex(x.id) /\ x.id < id)
             after == SelectSeq(s, LAMBDA x : IsArrayIndex(x.id) /\ x.id > id)
             others == SelectSeq(s, LAMBDA x : ~IsArrayIndex(x.id))
         IN  before \o <<rec>> \o after \o others
    ELSE Append(s, rec)

\* players.forEach(p => { s[p.id] = {...} })
RECURSIVE SeedStats(_, _)
SeedStats(s, ps) ==
    IF ps = <<>> THEN s
    ELSE SeedStats(
             ObjectSet(s, Head(ps).id,
                 [id |-> Head(ps).id,
                  goals |-> NumberOr0(Head(ps).initialGoals),
                  assists |-> NumberOr0(Head(ps).initialAssists),
                  matches |-> NumberOr0(Head(ps).initialMatches)]),
             Tail(ps))

\* if (s[pid]) s[pid].matches++
IncMatches(s, pid) ==
    ArrayOf([i \in 1..Len(s) |->
                IF s[i].id = pid THEN [s[i] EXCEPT !.matches = @ + 1] ELSE s[i]],
            Len(s))
\* Mutant of IncGoals: the comparison is inverted, every other entry is bumped.
IncGoalsOthers(s, pid) ==
    ArrayOf([i \in 1..Len(s) |->
                IF s[i].id # pid THEN [s[i] EXCEPT !.goals = @ + 1] ELSE s[i]],
            Len(s))
IncGoals(s, pid) ==
    ArrayOf([i \in 1..Len(s) |->
                IF s[i].id = pid THEN [s[i] EXCEPT !.goals = @ + 1] ELSE s[i]],
            Len(s))
IncAssists(s, pid) ==
    ArrayOf([i \in 1..Len(s) |->
                IF s[i].id = pid THEN [s[i] EXCEPT !.assists = @ + 1] ELSE s[i]],
            Len(s))

\* [...match.homePlayerIds, ...match.awayPlayerIds].forEach(...)
RECURSIVE RosterLoop(_, _)
RosterLoop(s, pids) ==
    IF pids = <<>> THEN s
    ELSE RosterLoop(IncMatches(s, Head(pids)), Tail(pids))

\* A body of the loop that credits an Assist-type event to its player.
EventStepAssistCounted(s, e) ==
    IF e.type = GOAL
    THEN LET s1 == IncGoals(s, e.playerId)
         IN  IF e.assistPlayerId # Absent THEN IncAssists(s1, e.assistPlayerId[1]) ELSE s1
    ELSE IF e.type = ASSIST THEN IncAssists(s, e.playerId) ELSE s

\* The body of match.events.forEach.
EventStep(s, e) ==
    LET s1 == IF e.type = GOAL THEN IncGoals(s, e.playerId) ELSE s
    IN  IF e.type = GOAL /\ e.assistPlayerId # Absent
        THEN IncAssists(s1, e.assistPlayerId[1])
        ELSE s1

RECURSIVE EventLoop(_, _)
EventLoop(s, es) ==
    IF es = <<>> THEN s ELSE EventLoop(EventStep(s, Head(es)), Tail(es))

\* Mutant of MatchLoop: the isFinished filter is missing.
RECURSIVE MatchLoopAll(_, _)
MatchLoopAll(s, ms) ==
    IF ms = <<>> THEN s
    ELSE LET m == Head(ms) IN
         MatchLoopAll(
             EventLoop(RosterLoop(s, m.homePlayerIds \o m.awayPlayerIds), m.events),
             Tail(ms))

\* matches.filter(m => m.isFinished).forEach(...)
RECURSIVE MatchLoop(_, _)
MatchLoop(s, ms) ==
    IF ms = <<>> THEN s
    ELSE LET m == Head(ms) IN
         IF m.isFinished
         THEN MatchLoop(
                  EventLoop(RosterLoop(s, m.homePlayerIds \o m.awayPlayerIds), m.events),
                  Tail(ms))
         ELSE MatchLoop(s, Tail(ms))

\* players.find(p => p.id === id)
FindPlayer(ps, id) ==
    IF HasRow(ps, id) THEN Some(ps[FindIndex(ps, id)]) ELSE Absent

\* Mutant of GoalsCompare: every pair compares equal, the key order stays.
GoalsCompareNone(a, b) == 0
GoalsCompare(a, b) == b.goals - a.goals

stats(ps, ms) ==
    LET s == MatchLoop(SeedStats(<<>>, ps), ms)
        recs == ArrayOf([i \in 1..Len(s) |->
                    [goals |-> s[i].goals, assists |-> s[i].assists,
                     matches |-> s[i].matches, id |-> s[i].id,
                     player |-> FindPlayer(ps, s[i].id)]], Len(s))
    IN  ArraySort(recs, [x \in Range(recs), y \in Range(recs) |-> GoalsCompare(x, y)])

\* --------------------------------------- players-only variant: the leaderboard
\* One record of the leaderboard (stats.map callback).
\* A record whose ga leaves the assists out.
StatRecordGaIsGoals(p) ==
    LET goals == NumberOr0(p.initialGoals)
    IN  [id |-> p.id, player |-> p, goals |-> goals,
         assists |-> NumberOr0(p.initialAssists),
         saves |-> NumberOr0(p.initialSaves),
         clearances |-> NumberOr0(p.initialClearances),
         matches |-> NumberOr0(p.initialMatches), ga |-> goals]

StatRecord(p) ==
    LET goals == NumberOr0(p.initialGoals)
        assists == NumberOr0(p.initialAssists)
        saves == NumberOr0(p.initialSaves)
        clearances == NumberOr0(p.initialClearances)
    IN  [id |-> p.id, player |-> p, goals |-> goals, assists |-> assists,
         saves |-> saves, clearances |-> clearances,
         matches |-> NumberOr0(p.initialMatches), ga |-> goals + assists]

\* Mutant of StatCompare: two goalkeepers are compared by goals as well.
StatCompareGoalsOnly(a, b) == b.goals - a.goals

\* The comparator of the leaderboard: goalkeepers against each other by
\* saves, every other pair by goals.
StatCompare(a, b) ==
    IF a.player.position = PosGK /\ b.player.position = PosGK
    THEN b.saves - a.saves
    ELSE b.goals - a.goals

Leaderboard(ps) ==
    LET recs == ArrayOf([i \in 1..Len(ps) |-> StatRecord(ps[i])], Len(ps))
        cmp == [x \in Range(recs), y \in Range(recs) |-> StatCompare(x, y)]
    IN  ArraySort(recs, cmp)

\* ---------------------------------------------------------------- bounds
MaxPlayers == 3
MaxGoals == 2
MaxSaves == 1
MaxEvents == 2  \* events the aggregator harness spreads over the matches
MaxStore == 3   \* entities the gateway harness lets the two collections hold
DbIds == {1, 2}     \* identifiers the gateway harness draws entities from
DbDates == {1, 2}   \* dates the gateway harness draws matches from

\* -------------------------------------------- the variables a harness leaves
NoCall == [op |-> "none"]
\* useState's initial values.
MemInit ==
    /\ players = <<>>
    /\ matches = <<>>
    /\ isLoading = TRUE
    /\ activeTab = "dashboard"
    /\ activeMatchId = Absent
    /\ draftHomeIds = <<>>
    /\ draftAwayIds = <<>>
    /\ editingPlayerId = Absent
    /\ editFormData = Absent
    /\ generatingReport = FALSE
\* The App left alone, for the runs that study a function or the gateway.
AppIdleInit ==
    /\ MemInit
    /\ pending = <<>>
    /\ now = 1
    /\ faults = 0
    /\ ai = FALSE
DbIdleInit ==
    /\ AppIdleInit
    /\ cfg = [urlHttps |-> FALSE, keySet |-> FALSE]
    /\ supabase = "null"
    /\ ls = [players |-> Null, matches |-> Null]
    /\ rdb = [players |-> <<>>, matches |-> <<>>]
    /\ call = NoCall
    /\ inflight = <<>>
FnIdleInit ==
    /\ fpc = "idle"
    /\ fin = <<>>
    /\ fout = <<>>

\* ----------------------------------------------- harness: the leaderboard
\* Players as handleAddPlayer and saveEdit leave them: the manual counters
\* are numbers; identifiers are distinct.
SortPlayer(i, pos, g, s) ==
    [id |-> i, name |-> "n", position |-> pos, initialGoals |-> Some(g),
     initialAssists |-> Some(0), initialMatches |-> Some(0),
     initialSaves |-> Some(s), initialClearances |-> Some(0)]

InitSort ==
    /\ fpc = "in"
    /\ \E n \in 0..MaxPlayers :
         \E pos \in [1..n -> {PosGK, PosFWD}], g \in [1..n -> 0..MaxGoals],
            s \in [1..n -> 0..MaxSaves] :
             fin = ArrayOf([i \in 1..n |-> SortPlayer(i, pos[i], g[i], s[i])], n)
    /\ fout = <<>>
    /\ DbIdleInit

ComputeLeaderboard ==
    /\ fpc = "in"
    /\ fpc' = "out"
    /\ fout' = Leaderboard(fin)
    /\ UNCHANGED <<fin, dbvars, appvars>>

NextSort == ComputeLeaderboard

SpecSort == InitSort /\ [][NextSort]_vars

\* ---------------------------------------------- harness: the aggregator
\* The identifiers are 1 and 2, or -1 and -2: keys that are array indices,
\* or keys that are not (as the identifiers Date.now() gives are not).
AggIds == {1, 2}
AggKeySigns == {1, -1}
Keyed(sign, ids) == ArrayOf([i \in 1..Len(ids) |-> sign * ids[i]], Len(ids))
\* The manual counters of a player: none entered, or all three.
AggBaselines ==
    {[initialGoals |-> Absent, initialAssists |-> Absent, initialMatches |-> Absent],
     [initialGoals |-> Some(1), initialAssists |-> Some(2), initialMatches |-> Some(3)]}
AggPlayer(i, b) ==
    [id |-> i, name |-> "n", position |-> PosMID, initialGoals |-> b.initialGoals,
     initialAssists |-> b.initialAssists, initialMatches |-> b.initialMatches]
\* Player lists with distinct identifiers.
AggIdLists == {<<>>, <<1>>, <<2>>, <<1, 2>>, <<2, 1>>}
AggRosters == {[home |-> <<1>>, away |-> <<2>>], [home |-> <<1, 2>>, away |-> <<2>>]}
AggEvents ==
    [type : {GOAL}, playerId : AggIds, assistPlayerId : {Absent, Some(1), Some(2)}]
    \cup [type : {ASSIST}, playerId : AggIds, assistPlayerId : {Absent}]
    \cup [type : {ASSIST}, playerId : {1}, assistPlayerId : {Some(2)}]
AggMatchSlots == {1, 2}

RECURSIVE SumLen(_)
SumLen(ms) == IF ms = <<>> THEN 0 ELSE Len(Head(ms).events) + SumLen(Tail(ms))

InitAgg ==
    /\ fpc = "in"
    /\ \E ids \in AggIdLists : \E b \in [AggIds -> AggBaselines] :
        \E sign \in AggKeySigns :
         fin = [players |-> ArrayOf([i \in 1..Len(ids) |->
                                        AggPlayer(sign * ids[i], b[ids[i]])],
                                    Len(ids)),
                matches |-> <<>>,
                sign |-> sign]
    /\ fout = <<>>
    /\ DbIdleInit

\* One more match in the input, with no event yet.
AggAddMatch ==
    /\ fpc = "in"
    /\ Len(fin.matches) + 1 \in AggMatchSlots
    /\ \E fl \in BOOLEAN, ro \in AggRosters :
         fin' = [fin EXCEPT !.matches = Append(@,
                    [id |-> Len(fin.matches) + 1, isFinished |-> fl,
                     homePlayerIds |-> Keyed(fin.sign, ro.home),
                     awayPlayerIds |-> Keyed(fin.sign, ro.away),
                     events |-> <<>>])]
    /\ UNCHANGED <<fpc, fout, dbvars, appvars>>

\* One more event in the last match of the input.
AggAddEvent ==
    /\ fpc = "in"
    /\ fin.matches # <<>>
    /\ SumLen(fin.matches) < MaxEvents
    /\ \E e \in AggEvents :
         LET keyed == [e EXCEPT !.playerId = fin.sign * @,
                                !.assistPlayerId = Keyed(fin.sign, @)]
         IN  fin' = [fin EXCEPT !.matches[Len(fin.matches)].events = <<keyed>> \o @]
    /\ UNCHANGED <<fpc, fout, dbvars, appvars>>

ComputeStats ==
    /\ fpc = "in"
    /\ fpc' = "out"
    /\ fout' = stats(fin.players, fin.matches)
    /\ UNCHANGED <<fin, dbvars, appvars>>

NextAgg == AggAddMatch \/ AggAddEvent \/ ComputeStats

SpecAgg == InitAgg /\ [][NextAgg]_vars

\* ------------------------------------------------- harness: the gateway
\* The startup code of services/db.ts: the client is built only when the
\* configuration is valid, and createClient may throw (the catch leaves the
\* handle null).
InitDb ==
    /\ cfg \in [urlHttps : BOOLEAN, keySet : BOOLEAN]
    /\ supabase \in (IF isSupabaseConfigured(cfg) THEN {"client", "null"} ELSE {"null"})
    /\ ls = [players |-> Null, matches |-> Null]
    /\ rdb = [players |-> <<>>, matches |-> <<>>]
    /\ call = NoCall
    /\ inflight = <<>>
    /\ FnIdleInit
    /\ AppIdleInit

DbPlayers == [id : DbIds, name : {"a", "b"}]
DbMatches == [id : DbIds, date : DbDates]

\* A remote call can come back with an error only when there is a remote call.
Errs == IF isSupabaseConfigured(cfg) /\ supabase = "client" THEN BOOLEAN ELSE {FALSE}

StoredCount == Len(ParseOrEmpty(ls.players)) + Len(ParseOrEmpty(ls.matches))
                 + Len(rdb.players) + Len(rdb.matches)

\* How many calls the harness lets be unsettled at once: one on the remote
\* backend, where the server carries out each call in one go; two on the
\* local backend, where a call reads at once and writes after its await,
\* the second being made over a store of at most one entity.
DbOverlapStores == 0..1
DbInflight ==
    IF ~isSupabaseConfigured(cfg) /\ StoredCount \in DbOverlapStores THEN 1..2 ELSE 1..1
AddsInflight ==
    Cardinality({i \in 1..Len(inflight) : inflight[i].op \in {"addPlayer", "addMatch"}})

\* dbService.<op>(arg) is called: the operation runs to its first await.
\* On the local backend it has read localStorage by then.
DbCall(op, arg) ==
    /\ inflight' = Append(inflight, [op |-> op, arg |-> arg, read |-> ls])
    /\ call' = NoCall
    /\ UNCHANGED <<cfg, supabase, ls, rdb, fvars, appvars>>

\* The oldest unsettled call goes on after its await and settles.  On the
\* local backend it writes what it made of the text it read when it was
\* called; on the remote backend the server carries the request out on the
\* rows as they are, or answers with an error.
DbSettle ==
    /\ inflight # <<>>
    /\ \E err \in Errs :
         LET c == inflight[1]
             local == ~isSupabaseConfigured(cfg)
             res == hybridService(c.op, cfg, supabase, IF local THEN c.read ELSE ls,
                                  rdb, c.arg, err)
         IN  /\ ls' = IF local THEN AfterAwait(c.op, c.arg, c.read, ls, res.ls) ELSE res.ls
             /\ rdb' = res.rdb
             /\ call' = [op |-> c.op, arg |-> c.arg, err |-> err, read |-> c.read,
                         preLs |-> ls, preRdb |-> rdb,
                         outcome |-> res.outcome, value |-> res.value]
    /\ inflight' = Tail(inflight)
    /\ UNCHANGED <<cfg, supabase, fvars, appvars>>

DbGetAllPlayers ==
    /\ Len(inflight) + 1 \in DbInflight
    /\ DbCall("getAllPlayers", <<>>)

DbAddPlayer ==
    /\ Len(inflight) + 1 \in DbInflight
    /\ StoredCount + AddsInflight < MaxStore
    /\ \E p \in DbPlayers : DbCall("addPlayer", p)

DbUpdatePlayer ==
    /\ Len(inflight) + 1 \in DbInflight
    /\ \E p \in DbPlayers : DbCall("updatePlayer", p)

DbDeletePlayer ==
    /\ Len(inflight) + 1 \in DbInflight
    /\ \E id \in DbIds : DbCall("deletePlayer", id)

DbGetAllMatches ==
    /\ Len(inflight) + 1 \in DbInflight
    /\ DbCall("getAllMatches", <<>>)

DbAddMatch ==
    /\ Len(inflight) + 1 \in DbInflight
    /\ StoredCount + AddsInflight < MaxStore
    /\ \E m \in DbMatches : DbCall("addMatch", m)

DbUpdateMatch ==
    /\ Len(inflight) + 1 \in DbInflight
    /\ \E m \in DbMatches : DbCall("updateMatch", m)

DbDeleteMatch ==
    /\ Len(inflight) + 1 \in DbInflight
    /\ \E id \in DbIds : DbCall("deleteMatch", id)

NextDb ==
    \/ DbGetAllPlayers
    \/ DbAddPlayer
    \/ DbUpdatePlayer
    \/ DbDeletePlayer
    \/ DbGetAllMatches
    \/ DbAddMatch
    \/ DbUpdateMatch
    \/ DbDeleteMatch
    \/ DbSettle

SpecDb == InitDb /\ [][NextDb]_vars

\* ------------------------------------------------------ gateway properties
IsLocal == ~isSupabaseConfigured(cfg)
IsListOp == call.op \in {"getAllPlayers", "getAllMatches"}
IsMutation == call.op \in {"addPlayer", "updatePlayer", "deletePlayer",
                           "addMatch", "updateMatch", "deleteMatch"}

\* How many times x occurs in the array.
Count(arr, x) == Cardinality({i \in 1..Len(arr) : arr[i] = x})
HasId(arr, id) == \E i \in 1..Len(arr) : arr[i].id = id

\* What list() resolves to in the current state, with no backend error.
ListPlayersNow == getAllPlayers(cfg, supabase, ls, rdb, FALSE).value
ListMatchesNow == getAllMatches(cfg, supabase, ls, rdb, FALSE).value
\* The local arrays as they were stored when the last call was made.
PrePlayers == ParseOrEmpty(call.read.players)
PreMatches == ParseOrEmpty(call.read.matches)

\* C4 (as stated): no gateway operation rejects; a list operation that met a
\* backend failure resolves to the empty sequence and a mutation that met one
\* leaves the persisted state as it was.
C4_NeverRejects ==
    call.op # "none" =>
        /\ call.outcome = "resolved"
        /\ (call.err /\ IsListOp) => call.value = <<>>
        /\ (call.err /\ IsMutation) => (ls = call.preLs /\ rdb = call.preRdb)

\* C7: on the local backend, after add(e) the list holds e, and every entity
\* stored before is still listed (as many times as before).
C7_AddThenList ==
    /\ (IsLocal /\ call.op = "addPlayer") =>
            /\ Count(ListPlayersNow, call.arg) >= 1
            /\ \A x \in Range(PrePlayers) :
                   Count(ListPlayersNow, x) >= Count(PrePlayers, x)
    /\ (IsLocal /\ call.op = "addMatch") =>
            /\ Count(ListMatchesNow, call.arg) >= 1
            /\ \A x \in Range(PreMatches) :
                   Count(ListMatchesNow, x) >= Count(PreMatches, x)

\* A match added to a store of two that were not stored in date order.
C7_Witness ==
    /\ IsLocal
    /\ call.op = "addMatch"
    /\ Len(PreMatches) = 2
    /\ PreMatches[1].date < PreMatches[2].date
    /\ call.arg.id # PreMatches[1].id

\* C8: on the local backend, after delete(id) the list holds no entity with
\* that identifier, and every entity with another identifier is still listed
\* (as many times as before).
C8_DeleteThenList ==
    /\ (IsLocal /\ call.op = "deletePlayer") =>
            /\ ~HasId(ListPlayersNow, call.arg)
            /\ \A x \in Range(PrePlayers) :
                   x.id # call.arg => Count(ListPlayersNow, x) = Count(PrePlayers, x)
    /\ (IsLocal /\ call.op = "deleteMatch") =>
            /\ ~HasId(ListMatchesNow, call.arg)
            /\ \A x \in Range(PreMatches) :
                   x.id # call.arg => Count(ListMatchesNow, x) = Count(PreMatches, x)

\* A store holding the deleted identifier twice and another identifier.
C8_Witness ==
    /\ IsLocal
    /\ call.op = "deletePlayer"
    /\ Cardinality({i \in 1..Len(PrePlayers) : PrePlayers[i].id = call.arg}) = 2
    /\ \E i \in 1..Len(PrePlayers) : PrePlayers[i].id # call.arg

\* C9 (as stated): a second update(e) right after update(e) leaves the
\* persisted state exactly as the first left it.
C9_UpdateTwiceIdentical ==
    /\ (call.op = "updatePlayer" /\ call.outcome = "resolved" /\ ~call.err) =>
            LET again == updatePlayer(cfg, supabase, ls, rdb, call.arg, FALSE)
            IN  again.ls = ls /\ again.rdb = rdb
    /\ (call.op = "updateMatch" /\ call.outcome = "resolved" /\ ~call.err) =>
            LET again == updateMatch(cfg, supabase, ls, rdb, call.arg, FALSE)
            IN  again.ls = ls /\ again.rdb = rdb

\* C10 (as stated): update(e) with no persisted entity of that identifier
\* changes nothing and resolves.
NoneStoredWithId(kind, id) ==
    /\ ~HasId(ParseOrEmpty(call.preLs[kind]), id)
    /\ ~HasRow(call.preRdb[kind], id)

C10_UpdateUnknownIsNoOp ==
    /\ (call.op = "updatePlayer" /\ NoneStoredWithId("players", call.arg.id)) =>
            (call.outcome = "resolved" /\ ls = call.preLs /\ rdb = call.preRdb)
    /\ (call.op = "updateMatch" /\ NoneStoredWithId("matches", call.arg.id)) =>
            (call.outcome = "resolved" /\ ls = call.preLs /\ rdb = call.preRdb)

\* The list after update(e), given the array stored before: same size, the
\* entities with other identifiers as many times as before, and e's field
\* values in every entry that carries e's identifier.
ReplacedBy(before, after, e) ==
    /\ Len(after) = Len(before)
    /\ \A x \in Range(before) \cup Range(after) :
           x.id # e.id => Count(after, x) = Count(before, x)
    /\ \A i \in 1..Len(after) : after[i].id = e.id => after[i] = e

\* C11 (as stated): on the local backend, update(e) with an entity of
\* identifier e.id persisted keeps the size of the collection, leaves the
\* entities with other identifiers as they were, and list() afterwards
\* returns e's field values, not the old ones, for that identifier.
C11_UpdateReplaces ==
    /\ (IsLocal /\ call.op = "updatePlayer" /\ HasId(PrePlayers, call.arg.id)) =>
            ReplacedBy(PrePlayers, ListPlayersNow, call.arg)
    /\ (IsLocal /\ call.op = "updateMatch" /\ HasId(PreMatches, call.arg.id)) =>
            ReplacedBy(PreMatches, ListMatchesNow, call.arg)

SameContents(a, b) == \A x \in Range(a) \cup Range(b) : Count(a, x) = Count(b, x)

\* C13: on either backend, what getAllMatches returns is in date order,
\* latest first (for a before b, date(a) >= date(b)), and without a backend
\* error it is the persisted collection.
C13_ListSortedByDate ==
    (call.op = "getAllMatches" /\ call.outcome = "resolved") =>
        /\ \A i, j \in 1..Len(call.value) :
               i < j => call.value[i].date >= call.value[j].date
        /\ ~call.err =>
               SameContents(call.value,
                            IF IsLocal THEN PreMatches
                            ELSE SupabaseSelectJson(call.preRdb.matches))

\* Three matches of two dates, persisted with an earlier one first, listed.
C13_Witness ==
    /\ call.op = "getAllMatches"
    /\ call.outcome = "resolved"
    /\ Len(call.value) = 3
    /\ LET stored == IF IsLocal THEN PreMatches
                     ELSE SupabaseSelectJson(call.preRdb.matches)
       IN  stored[1].date < stored[3].date

\* ==== services/db.ts, both variants ====================================
\* The build picks one of the two gateway files; the environment gives the
\* two configuration values. "unset" is an undefined or empty variable,
\* "other" a non-empty URL without the https:// prefix.
GwVariants == {"hybrid", "remoteOnly"}
EnvUrls == {"unset", "other", "https"}
EnvKeys == {"unset", "set"}

\* env.X || fallback
OrDefault(env, fallback) == IF env = "unset" THEN fallback ELSE env

\* SUPABASE_URL and SUPABASE_KEY as the module constants end up: the hybrid
\* file falls back to '', the remote-only file to a built-in project URL
\* and publishable key.
SUPABASE_URL(variant, envUrl) ==
    OrDefault(envUrl, IF variant = "hybrid" THEN "unset" ELSE "https")
SUPABASE_KEY(variant, envKey) ==
    OrDefault(envKey, IF variant = "hybrid" THEN "unset" ELSE "set")

Config(variant, envUrl, envKey) ==
    [urlHttps |-> SUPABASE_URL(variant, envUrl) = "https",
     keySet   |-> SUPABASE_KEY(variant, envKey) = "set",
     variant  |-> variant]

\* The startup block asks for a client when the hybrid file finds both
\* values and when the remote-only file finds the URL prefix.
CreatesClient(c) ==
    IF c.variant = "hybrid" THEN isSupabaseConfigured(c) ELSE c.urlHttps

\* createClient may throw; the catch leaves the handle null.
StartupClients(c) == IF CreatesClient(c) THEN {"client", "null"} ELSE {"null"}

\* The remote-only file: every operation starts with if (!supabase).
Alerting(res, alert) ==
    [ls |-> res.ls, rdb |-> res.rdb, outcome |-> res.outcome,
     value |-> res.value, alert |-> alert]

roGetAllPlayers(sb, l, r, err) ==
    IF sb = "null" THEN Alerting(Resolved(l, r, <<>>), FALSE)
    ELSE IF err THEN Alerting(Resolved(l, r, <<>>), FALSE)
    ELSE Alerting(Resolved(l, r, SupabaseSelectJson(r.players)), FALSE)

\* addPlayer returning without a word, as the other mutations do.
roAddPlayerSilent(sb, l, r, player, err) ==
    IF sb = "null" THEN Alerting(Resolved(l, r, <<>>), FALSE)
    ELSE IF err \/ HasRow(r.players, player.id) THEN Alerting(Resolved(l, r, <<>>), FALSE)
    ELSE Alerting(Resolved(l, [r EXCEPT !.players =
                SupabaseInsert(@, [id |-> player.id, json |-> player])], <<>>), FALSE)

roAddPlayer(sb, l, r, player, err) ==
    IF sb = "null" THEN Alerting(Resolved(l, r, <<>>), TRUE)
    ELSE IF err \/ HasRow(r.players, player.id) THEN Alerting(Resolved(l, r, <<>>), FALSE)
    ELSE Alerting(Resolved(l, [r EXCEPT !.players =
                SupabaseInsert(@, [id |-> player.id, json |-> player])], <<>>), FALSE)

roUpdatePlayer(sb, l, r, player, err) ==
    IF sb = "null" THEN Alerting(Resolved(l, r, <<>>), FALSE)
    ELSE IF err THEN Alerting(Resolved(l, r, <<>>), FALSE)
    ELSE Alerting(Resolved(l, [r EXCEPT !.players = SupabaseUpdate(@, player.id, player)],
                           <<>>), FALSE)

roDeletePlayer(sb, l, r, id, err) ==
    IF sb = "null" THEN Alerting(Resolved(l, r, <<>>), FALSE)
    ELSE IF err THEN Alerting(Resolved(l, r, <<>>), FALSE)
    ELSE Alerting(Resolved(l, [r EXCEPT !.players = SupabaseDelete(@, id)], <<>>), FALSE)

roGetAllMatches(sb, l, r, err) ==
    IF sb = "null" THEN Alerting(Resolved(l, r, <<>>), FALSE)
    ELSE IF err THEN Alerting(Resolved(l, r, <<>>), FALSE)
    ELSE Alerting(Resolved(l, r, SortByDate(SupabaseSelectJson(r.matches))), FALSE)

roAddMatch(sb, l, r, match, err) ==
    IF sb = "null" THEN Alerting(Resolved(l, r, <<>>), FALSE)
    ELSE IF err \/ HasRow(r.matches, match.id) THEN Alerting(Resolved(l, r, <<>>), FALSE)
    ELSE Alerting(Resolved(l, [r EXCEPT !.matches =
                SupabaseInsert(@, [id |-> match.id, json |-> match])], <<>>), FALSE)

roUpdateMatch(sb, l, r, match, err) ==
    IF sb = "null" THEN Alerting(Resolved(l, r, <<>>), FALSE)
    ELSE IF err THEN Alerting(Resolved(l, r, <<>>), FALSE)
    ELSE Alerting(Resolved(l, [r EXCEPT !.matches = SupabaseUpdate(@, match.id, match)],
                           <<>>), FALSE)

roDeleteMatch(sb, l, r, id, err) ==
    IF sb = "null" THEN Alerting(Resolved(l, r, <<>>), FALSE)
    ELSE IF err THEN Alerting(Resolved(l, r, <<>>), FALSE)
    ELSE Alerting(Resolved(l, [r EXCEPT !.matches = SupabaseDelete(@, id)], <<>>), FALSE)

\* dbService.<op> of the file the build picked.
dbService(op, c, sb, l, r, arg, err) ==
    IF c.variant = "hybrid"
    THEN Alerting(hybridService(op, c, sb, l, r, arg, err), FALSE)
    ELSE CASE op = "getAllPlayers" -> roGetAllPlayers(sb, l, r, err)
           [] op = "addPlayer"     -> roAddPlayer(sb, l, r, arg, err)
           [] op = "updatePlayer"  -> roUpdatePlayer(sb, l, r, arg, err)
           [] op = "deletePlayer"  -> roDeletePlayer(sb, l, r, arg, err)
           [] op = "getAllMatches" -> roGetAllMatches(sb, l, r, err)
           [] op = "addMatch"      -> roAddMatch(sb, l, r, arg, err)
           [] op = "updateMatch"   -> roUpdateMatch(sb, l, r, arg, err)
           [] op = "deleteMatch"   -> roDeleteMatch(sb, l, r, arg, err)

\* ---- harness: gateway calls of either file, made and settled ----
InitGw ==
    /\ \E variant \in GwVariants, envUrl \in EnvUrls, envKey \in EnvKeys :
           cfg = Config(variant, envUrl, envKey)
    /\ supabase \in StartupClients(cfg)
    /\ ls = [players |-> Null, matches |-> Null]
    /\ rdb = [players |-> <<>>, matches |-> <<>>]
    /\ call = NoCall
    /\ inflight = <<>>
    /\ FnIdleInit
    /\ AppIdleInit

GwErrs == IF supabase = "client" THEN BOOLEAN ELSE {FALSE}

GwLocal == cfg.variant = "hybrid" /\ ~isSupabaseConfigured(cfg)
GwInflight == IF GwLocal /\ StoredCount \in DbOverlapStores THEN 1..2 ELSE 1..1

\* dbService.<op>(arg) of the file the build picked is called.
GwCall(op, arg) ==
    /\ inflight' = Append(inflight, [op |-> op, arg |-> arg, read |-> ls])
    /\ call' = NoCall
    /\ UNCHANGED <<cfg, supabase, ls, rdb, fvars, appvars>>

\* The oldest unsettled call settles, as in DbSettle.
GwSettle ==
    /\ inflight # <<>>
    /\ \E err \in GwErrs :
         LET c == inflight[1]
             res == dbService(c.op, cfg, supabase, IF GwLocal THEN c.read ELSE ls,
                              rdb, c.arg, err)
         IN  /\ ls' = IF GwLocal THEN AfterAwait(c.op, c.arg, c.read, ls, res.ls)
                       ELSE res.ls
             /\ rdb' = res.rdb
             /\ call' = [op |-> c.op, arg |-> c.arg, err |-> err, read |-> c.read,
                         preLs |-> ls, preRdb |-> rdb, outcome |-> res.outcome,
                         value |-> res.value, alert |-> res.alert]
    /\ inflight' = Tail(inflight)
    /\ UNCHANGED <<cfg, supabase, fvars, appvars>>

GwGetAllPlayers ==
    /\ Len(inflight) + 1 \in GwInflight
    /\ GwCall("getAllPlayers", <<>>)
GwAddPlayer ==
    /\ Len(inflight) + 1 \in GwInflight
    /\ StoredCount + AddsInflight < MaxStore
    /\ \E p \in DbPlayers : GwCall("addPlayer", p)
GwUpdatePlayer ==
    /\ Len(inflight) + 1 \in GwInflight
    /\ \E p \in DbPlayers : GwCall("updatePlayer", p)
GwDeletePlayer ==
    /\ Len(inflight) + 1 \in GwInflight
    /\ \E id \in DbIds : GwCall("deletePlayer", id)
GwGetAllMatches ==
    /\ Len(inflight) + 1 \in GwInflight
    /\ GwCall("getAllMatches", <<>>)
GwAddMatch ==
    /\ Len(inflight) + 1 \in GwInflight
    /\ StoredCount + AddsInflight < MaxStore
    /\ \E m \in DbMatches : GwCall("addMatch", m)
GwUpdateMatch ==
    /\ Len(inflight) + 1 \in GwInflight
    /\ \E m \in DbMatches : GwCall("updateMatch", m)
GwDeleteMatch ==
    /\ Len(inflight) + 1 \in GwInflight
    /\ \E id \in DbIds : GwCall("deleteMatch", id)

NextGw ==
    \/ GwGetAllPlayers
    \/ GwAddPlayer
    \/ GwUpdatePlayer
    \/ GwDeletePlayer
    \/ GwGetAllMatches
    \/ GwAddMatch
    \/ GwUpdateMatch
    \/ GwDeleteMatch
    \/ GwSettle

SpecGw == InitGw /\ [][NextGw]_vars

\* ---- which store a finished call worked on ----
CallKind == IF call.op \in {"getAllPlayers", "addPlayer", "updatePlayer", "deletePlayer"}
            THEN "players" ELSE "matches"
LocalBefore == ParseOrEmpty(call.read[CallKind])
LocalAfter == ParseOrEmpty(ls[CallKind])
RowsBefore == call.preRdb[CallKind]
RowsAfter == rdb[CallKind]

\* The call read and wrote browser-local storage and left the remote rows.
OnLocalStorage ==
    /\ call.outcome = "resolved"
    /\ rdb = call.preRdb
    /\ IsListOp => SameContents(call.value, LocalBefore)
    /\ call.op \in {"addPlayer", "addMatch"} =>
           /\ Len(LocalAfter) = Len(LocalBefore) + 1
           /\ Count(LocalAfter, call.arg) = Count(LocalBefore, call.arg) + 1
    /\ call.op \in {"updatePlayer", "updateMatch"} =>
           IF HasId(LocalBefore, call.arg.id)
           THEN Count(LocalAfter, call.arg) >= 1
           ELSE ls = call.preLs
    /\ call.op \in {"deletePlayer", "deleteMatch"} => ~HasId(LocalAfter, call.arg)

\* The call read or wrote the remote rows and left browser-local storage.
OnRemote ==
    /\ call.outcome = "resolved"
    /\ ls = call.preLs
    /\ IsListOp => SameContents(call.value, SupabaseSelectJson(RowsBefore))
    /\ call.op \in {"addPlayer", "addMatch"} => HasRow(RowsAfter, call.arg.id)
    /\ call.op \in {"updatePlayer", "updateMatch"} =>
           IF HasRow(RowsBefore, call.arg.id)
           THEN Count(SupabaseSelectJson(RowsAfter), call.arg) = 1
           ELSE rdb = call.preRdb
    /\ call.op \in {"deletePlayer", "deleteMatch"} => ~HasRow(RowsAfter, call.arg)

\* The call did nothing: no store touched, an empty list returned.
Degraded ==
    /\ call.outcome = "resolved"
    /\ ls = call.preLs
    /\ rdb = call.preRdb
    /\ IsListOp => call.value = <<>>

\* The call rejected and touched no store.
Refused ==
    /\ call.outcome = "rejected"
    /\ ls = call.preLs
    /\ rdb = call.preRdb

\* C12 (as stated): every gateway operation uses the remote backend if the
\* configured URL starts with https:// and the key is non-empty, and reads
\* and writes browser-local storage otherwise.  Using the remote backend is
\* read as taking the remote path: browser-local storage is left alone, and
\* the rows are read or written when there is a client and no backend error.
C12_BackendFromConfig ==
    call.op # "none" =>
        IF cfg.urlHttps /\ cfg.keySet
        THEN /\ ls = call.preLs
             /\ (supabase = "client" /\ ~call.err) => OnRemote
        ELSE OnLocalStorage

\* C12 (amended): the configuration and the client handle never change.  An
\* operation reads or writes the remote rows if the URL starts with https://,
\* the key is non-empty and the client was constructed; a backend error then
\* leaves both stores as they were.  Without that, the hybrid file reads and
\* writes browser-local storage when the configuration is invalid and
\* rejects, touching no store, when the configuration is valid and the
\* client is missing; the remote-only file has no client, does nothing and
\* never touches browser-local storage.
C12_BackendFromConfigPerVariant ==
    /\ [][cfg' = cfg /\ supabase' = supabase]_vars
    /\ [](call.op # "none" =>
            IF cfg.urlHttps /\ cfg.keySet /\ supabase = "client"
            THEN IF call.err THEN Degraded ELSE OnRemote
            ELSE IF cfg.variant = "remoteOnly"
                 THEN Degraded /\ supabase = "null"
                 ELSE IF cfg.urlHttps /\ cfg.keySet
                      THEN Refused /\ supabase = "null"
                      ELSE OnLocalStorage /\ supabase = "null")

\* Remote-only file with its client constructed: an update replaced a remote
\* row after an add had inserted it, and browser-local storage was never
\* written.
C12_Witness ==
    /\ cfg.variant = "remoteOnly"
    /\ supabase = "client"
    /\ call.op = "updatePlayer"
    /\ ~call.err
    /\ HasRow(RowsBefore, call.arg.id)
    /\ rdb # call.preRdb
    /\ ls = [players |-> Null, matches |-> Null]

IsGK(r) == r.player.position = PosGK

\* C3 (as stated): every earlier entry dominates every later one, by saves
\* between two goalkeepers and by goals otherwise.
C3_PairwiseOrdered ==
    fpc = "out" =>
        \A i, j \in 1..Len(fout) :
            i < j =>
                IF IsGK(fout[i]) /\ IsGK(fout[j])
                THEN fout[i].saves >= fout[j].saves
                ELSE fout[i].goals >= fout[j].goals

\* C3 (amended): the pairwise ordering holds for every list that holds only
\* goalkeepers or at most one goalkeeper.
GoalkeeperCount(recs) == Cardinality({i \in 1..Len(recs) : IsGK(recs[i])})
C3_PairwiseOrderedUnmixed ==
    (GoalkeeperCount(fout) <= 1 \/ GoalkeeperCount(fout) = Len(fout))
        => C3_PairwiseOrdered

\* Three goalkeepers that the sort had to reorder by saves although their
\* goals run the other way.
C3_Witness ==
    /\ fpc = "out"
    /\ Len(fout) = 3
    /\ GoalkeeperCount(fout) = 3
    /\ fout[1].id = 3
    /\ fout[1].saves > fout[3].saves
    /\ fout[1].goals < fout[3].goals

\* ---------------------------------------------------- aggregator properties
RecordsOf(id) == {i \in 1..Len(fout) : fout[i].id = id}
RecordOf(id) == fout[CHOOSE i \in RecordsOf(id) : TRUE]
FinishedMatches == {i \in 1..Len(fin.matches) : fin.matches[i].isFinished}
EventSlots == {<<i, j>> \in (1..Len(fin.matches)) \X (1..MaxEvents + 1) :
                  i \in FinishedMatches /\ j <= Len(fin.matches[i].events)}
EventAt(sl) == fin.matches[sl[1]].events[sl[2]]
RosterSlots == {<<i, j>> \in (1..Len(fin.matches)) \X (1..4) :
                  /\ i \in FinishedMatches
                  /\ j <= Len(fin.matches[i].homePlayerIds \o fin.matches[i].awayPlayerIds)}
RosterAt(sl) == (fin.matches[sl[1]].homePlayerIds \o fin.matches[sl[1]].awayPlayerIds)[sl[2]]
Referenced(id) ==
    \E sl \in EventSlots :
        EventAt(sl).playerId = id \/ EventAt(sl).assistPlayerId = Some(id)
Baseline(x) == IF x = Absent THEN 0 ELSE x[1]

\* C5: one record per player, and a player no event of a finished match
\* refers to keeps the baseline goals and assists.
C5_OnePerPlayerAndBaseline ==
    fpc = "out" =>
        /\ Len(fout) = Len(fin.players)
        /\ \A k \in 1..Len(fin.players) :
             LET p == fin.players[k] IN
             /\ Cardinality(RecordsOf(p.id)) = 1
             /\ ~Referenced(p.id) =>
                    /\ RecordOf(p.id).goals = Baseline(p.initialGoals)
                    /\ RecordOf(p.id).assists = Baseline(p.initialAssists)

\* Player 1 scored in a finished match; player 2, with counters entered, is
\* referred to by no event.
C5_Witness ==
    /\ fpc = "out"
    /\ Len(fin.players) = 2
    /\ Referenced(1)
    /\ ~Referenced(2)
    /\ \E k \in 1..2 : fin.players[k].id = 2 /\ fin.players[k].initialGoals = Some(1)
    /\ \E sl \in EventSlots : EventAt(sl).type = GOAL

\* C6: the derived counters are the baselines plus the Goal events (as
\* scorer, as assisting player) and the roster entries of finished matches.
C6_DerivedCounters ==
    fpc = "out" =>
        \A k \in 1..Len(fin.players) :
            LET p == fin.players[k]
                r == RecordOf(p.id)
            IN  /\ r.goals = Baseline(p.initialGoals)
                      + Cardinality({sl \in EventSlots :
                            EventAt(sl).type = GOAL /\ EventAt(sl).playerId = p.id})
                /\ r.assists = Baseline(p.initialAssists)
                      + Cardinality({sl \in EventSlots :
                            EventAt(sl).type = GOAL
                            /\ EventAt(sl).assistPlayerId = Some(p.id)})
                /\ r.matches = Baseline(p.initialMatches)
                      + Cardinality({sl \in RosterSlots : RosterAt(sl) = p.id})

\* A finished and an unfinished match, the latter holding a goal, and the
\* finished one a goal with an assist; a player is on a roster twice.
C6_Witness ==
    /\ fpc = "out"
    /\ Len(fin.players) = 2
    /\ Len(fin.matches) = 2
    /\ fin.matches[1].isFinished
    /\ ~fin.matches[2].isFinished
    /\ fin.matches[1].homePlayerIds = <<1, 2>>
    /\ \E j \in 1..Len(fin.matches[1].events) :
           /\ fin.matches[1].events[j].type = GOAL
           /\ fin.matches[1].events[j].assistPlayerId # Absent
    /\ \E j \in 1..Len(fin.matches[2].events) : fin.matches[2].events[j].type = GOAL

\* ==================================================================== App.tsx
\* The App component (matches variant) over the hybrid gateway.  A handler
\* runs from the click to its first await in one step.  With the local
\* backend the awaited gateway call settles in microtasks, before any other
\* event is dispatched, so the whole handler is one step.  With the remote
\* backend, and while the narrative service is asked, the handler is
\* suspended in `pending` with the values its closure captured at the click,
\* and other handlers run in between.
\* Identifiers are Date.now().toString(), the Clock value standing for the
\* 13-digit string: as keys of the aggregator's object these are not array
\* indices and are listed in insertion order.  The properties below apply
\* stats to one player list on both sides of a comparison, or look a record
\* up by identifier, so that they do not depend on the order of the keys.

Clock == 1..3           \* the values Date.now() takes
MaxFaults == 1          \* remote calls answered with an error in one run
AppPlayerPlaces == 1..2 \* places of a list of players a new player may take
AppMatchPlaces == 1..2  \* places of a list of matches a new match may take
AppEventPlaces == 1..1  \* places of a match's event list a new event may take
AppNames == {"a"}       \* what is typed into the new player's name input
AppCounters == {0, 1}   \* what is typed into an initial counter input
AppPositions == {PosMID, PosFWD} \* the options chosen in the position select
AppMinutes == {45}      \* what Math.random() makes of the minute
\* The configurations the App is started with: nothing set, or both strings
\* set with an https URL.
AppConfigs == {[urlHttps |-> FALSE, keySet |-> FALSE],
               [urlHttps |-> TRUE, keySet |-> TRUE]}

NoKeyReport == "API Key no configurada. No se puede generar el reporte."
NoTextReport == "No se pudo generar el análisis."
ErrorReport == "Error al conectar con la IA para generar el reporte."
UnknownPlayer == "Jugador Desconocido"

\* The lookup without the fallback name.
getNameNoFallback(allPlayers, id) ==
    LET index == FindIndex(allPlayers, id)
    IN  IF index # 0 THEN allPlayers[index].name ELSE ""

\* allPlayers.find(p => p.id === id)?.name || "Jugador Desconocido"
getName(allPlayers, id) ==
    LET index == FindIndex(allPlayers, id)
    IN  IF index # 0 /\ allPlayers[index].name # ""
        THEN allPlayers[index].name
        ELSE UnknownPlayer

\* One line of the chronology, "- Min <minute>: <detail> por <playerName>
\* para <teamName>", kept as its parts; detail is the event type, followed
\* for a goal with an assist by the assisting player's name.
EventLine(match, allPlayers, e) ==
    [minute |-> e.minute,
     detail |-> IF e.type = GOAL /\ e.assistPlayerId # Absent
                THEN <<e.type, getName(allPlayers, e.assistPlayerId[1])>>
                ELSE <<e.type>>,
     playerName |-> getName(allPlayers, e.playerId),
     teamName |-> IF e.side = "home" THEN match.homeTeamName ELSE match.awayTeamName]

\* match.events.map(...): one line per stored event, in stored order.
eventsList(match, allPlayers) ==
    ArrayOf([i \in 1..Len(match.events) |-> EventLine(match, allPlayers, match.events[i])],
            Len(match.events))

\* match.events.filter(e => e.type === GOAL).map(e => getName(e.playerId))
Scorers(match, allPlayers) ==
    LET goals == SelectSeq(match.events, LAMBDA e : e.type = GOAL)
    IN  ArrayOf([i \in 1..Len(goals) |-> getName(allPlayers, goals[i].playerId)], Len(goals))

\* The prompt, as the values substituted into the template.
Prompt(match, allPlayers) ==
    [teams |-> <<match.homeTeamName, match.awayTeamName>>,
     score |-> <<match.homeScore, match.awayScore>>,
     scorers |-> Scorers(match, allPlayers),
     chronology |-> eventsList(match, allPlayers)]

\* What ai.models.generateContent does: it answers with a text, answers
\* with no text, or throws.
AiReplies == {[kind |-> "text", text |-> "cronica"],
              [kind |-> "text", text |-> ""],
              [kind |-> "throws", text |-> ""]}

Report(outcome, value, prompt) == [outcome |-> outcome, value |-> value, prompt |-> prompt]

\* The same function without the try/catch around the call.
generateMatchReportNoCatch(client, match, allPlayers, reply) ==
    IF ~client THEN Report("resolved", NoKeyReport, <<>>)
    ELSE IF reply.kind = "throws"
         THEN Report("rejected", "", <<Prompt(match, allPlayers)>>)
         ELSE Report("resolved", IF reply.text # "" THEN reply.text ELSE NoTextReport,
                     <<Prompt(match, allPlayers)>>)

\* generateMatchReport(match, allPlayers); client says whether `ai` was
\* constructed, reply is what the service does with the request.  prompt is
\* <<>> when no request was made.
generateMatchReport(client, match, allPlayers, reply) ==
    IF ~client THEN Report("resolved", NoKeyReport, <<>>)
    ELSE IF reply.kind = "throws"
         THEN Report("resolved", ErrorReport, <<Prompt(match, allPlayers)>>)
         ELSE Report("resolved", IF reply.text # "" THEN reply.text ELSE NoTextReport,
                     <<Prompt(match, allPlayers)>>)

Local == ~isSupabaseConfigured(cfg)
Remote == isSupabaseConfigured(cfg) /\ supabase = "client"

\* What the configured backend holds, as a list call without error reads
\* it: the players in stored order, the matches through the sort that ends
\* getAllMatches.
PersistedPlayers ==
    IF Local THEN ParseOrEmpty(ls.players) ELSE SupabaseSelectJson(rdb.players)
PersistedMatches ==
    SortByDate(IF Local THEN ParseOrEmpty(ls.matches) ELSE SupabaseSelectJson(rdb.matches))

\* The React state as one record, and its assignment by the setters.
Mem ==
    [players |-> players, matches |-> matches, isLoading |-> isLoading,
     activeTab |-> activeTab, activeMatchId |-> activeMatchId,
     draftHomeIds |-> draftHomeIds, draftAwayIds |-> draftAwayIds,
     editingPlayerId |-> editingPlayerId, editFormData |-> editFormData,
     generatingReport |-> generatingReport]
Commit(m) ==
    /\ players' = m.players
    /\ matches' = m.matches
    /\ isLoading' = m.isLoading
    /\ activeTab' = m.activeTab
    /\ activeMatchId' = m.activeMatchId
    /\ draftHomeIds' = m.draftHomeIds
    /\ draftAwayIds' = m.draftAwayIds
    /\ editingPlayerId' = m.editingPlayerId
    /\ editFormData' = m.editFormData
    /\ generatingReport' = m.generatingReport

Includes(arr, x) == \E i \in 1..Len(arr) : arr[i] = x
\* The array with nothing filtered out.
WithoutNothing(arr, x) == arr
\* arr.filter(id => id !== x)
Without(arr, x) == SelectSeq(arr, LAMBDA y : y # x)
\* arr.filter(p => p.id !== id)
FilterOutId(arr, id) == SelectSeq(arr, LAMBDA p : p.id # id)
\* arr.map(p => p.id === id ? v : p)
MapReplace(arr, id, v) ==
    ArrayOf([i \in 1..Len(arr) |-> IF arr[i].id = id THEN v ELSE arr[i]], Len(arr))
\* loadedMatches.find(m => !m.isFinished), as an index, 0 for undefined
FirstUnfinished(ms) ==
    IF \E i \in 1..Len(ms) : ~ms[i].isFinished
    THEN CHOOSE i \in 1..Len(ms) :
             ~ms[i].isFinished /\ \A j \in 1..(i - 1) : ms[j].isFinished
    ELSE 0
\* useMemo(() => matches.find(m => m.id === activeMatchId)), as an index
ActiveMatchIndex ==
    IF activeMatchId = Absent THEN 0 ELSE FindIndex(matches, activeMatchId[1])

\* The gateway call a handler awaits.
Gateway(h, arg, err) ==
    CASE h = "handleAddPlayer" -> addPlayer(cfg, supabase, ls, rdb, arg, err)
      [] h = "deletePlayer" -> deletePlayer(cfg, supabase, ls, rdb, arg, err)
      [] h = "saveEdit" -> updatePlayer(cfg, supabase, ls, rdb, arg, err)
      [] h = "startMatch" -> addMatch(cfg, supabase, ls, rdb, arg, err)
      [] h = "addEvent" -> updateMatch(cfg, supabase, ls, rdb, arg, err)
      [] h = "finishMatch" -> updateMatch(cfg, supabase, ls, rdb, arg, err)

\* The statements of a handler after its gateway call has resolved: m is
\* the React state when they run, clo the lists the closure captured.
Then(h, arg, clo, m) ==
    CASE h = "handleAddPlayer" ->
             [m EXCEPT !.players = Append(clo.players, arg)]
      [] h = "deletePlayer" ->
             [m EXCEPT !.players = FilterOutId(clo.players, arg)]
      [] h = "saveEdit" ->
             [m EXCEPT !.players = MapReplace(clo.players, arg.id, arg),
                       !.editingPlayerId = Absent,
                       !.editFormData = Absent]
      [] h = "startMatch" ->
             [m EXCEPT !.matches = <<arg>> \o clo.matches,
                       !.activeMatchId = Some(arg.id),
                       !.activeTab = "live"]
      [] h = "addEvent" ->
             [m EXCEPT !.matches = MapReplace(clo.matches, arg.id, arg)]
      [] h = "finishMatch" ->
             [m EXCEPT !.matches = MapReplace(clo.matches, arg.id, arg),
                       !.activeMatchId = Absent,
                       !.generatingReport = FALSE,
                       !.draftHomeIds = <<>>,
                       !.draftAwayIds = <<>>,
                       !.activeTab = "matches"]

\* await dbService.<op>(arg), reached with React state m.  The remote call
\* leaves the handler suspended; slots holds the places in `pending` the run
\* lets it take.  Otherwise the call settles at once: resolved,
\* the rest of the handler runs; rejected (the client is null), the handler
\* ends there with an unhandled rejection.
Await(h, arg, clo, m, slots) ==
    IF Remote
    THEN /\ Len(pending) + 1 \in slots
         /\ pending' = Append(pending, [h |-> h, phase |-> "call", arg |-> arg, clo |-> clo])
         /\ Commit(m)
         /\ UNCHANGED <<ls, rdb>>
    ELSE LET res == Gateway(h, arg, FALSE)
         IN  /\ ls' = res.ls
             /\ rdb' = res.rdb
             /\ Commit(IF res.outcome = "resolved" THEN Then(h, arg, clo, m) ELSE m)
             /\ UNCHANGED pending

Closure == [players |-> players, matches |-> matches]
appfixed == <<fvars, cfg, supabase, call, inflight, ai>>
\* Only the remote backend answers with an error, and MaxFaults times at most.
ErrCount(errs) == Cardinality({i \in 1..Len(errs) : errs[i]})
MayFail(errs) ==
    /\ ErrCount(errs) > 0 => Remote
    /\ faults + ErrCount(errs) <= MaxFaults
    /\ faults' = faults + ErrCount(errs)

\* The clock moves on between two events.
Tick ==
    /\ now + 1 \in Clock
    /\ now' = now + 1
    /\ UNCHANGED <<fvars, dbvars, memvars, pending, ai, faults>>

\* The closure of a handler that captured no list.
NoClosure == [players |-> <<>>, matches |-> <<>>]

\* loadData suspended at await Promise.all([...]): arg holds what each of
\* the two list calls has resolved to, Absent while it is unanswered.
LoadEntry ==
    [h |-> "loadData", phase |-> "load",
     arg |-> [players |-> Absent, matches |-> Absent], clo |-> NoClosure]
Loading(p) == \E i \in 1..Len(p) : p[i].h = "loadData"

\* The statements of loadData after Promise.all has resolved, and finally.
Loaded(m, loadedPlayers, loadedMatches) ==
    LET unfinished == FirstUnfinished(loadedMatches)
    IN  [m EXCEPT !.players = loadedPlayers,
                  !.matches = loadedMatches,
                  !.activeMatchId = IF unfinished # 0
                                    THEN Some(loadedMatches[unfinished].id) ELSE @,
                  !.isLoading = FALSE]

\* useEffect(loadData), from the mount to await Promise.all: both list
\* calls are made.  With the local backend they settle in microtasks and
\* the handler runs to its end in this step; so it does when the client is
\* null, where the calls reject and the rejection is caught.  With the
\* remote backend the handler is suspended until both selects are answered.
loadData ==
    /\ isLoading
    /\ ~Loading(pending)
    /\ IF Remote
       THEN /\ pending' = Append(pending, LoadEntry)
            /\ UNCHANGED memvars
       ELSE /\ LET resP == getAllPlayers(cfg, supabase, ls, rdb, FALSE)
                   resM == getAllMatches(cfg, supabase, ls, rdb, FALSE)
               IN  IF resP.outcome = "resolved" /\ resM.outcome = "resolved"
                   THEN Commit(Loaded(Mem, resP.value, resM.value))
                   ELSE Commit([Mem EXCEPT !.isLoading = FALSE])
            /\ UNCHANGED pending
    /\ UNCHANGED <<appfixed, ls, rdb, now, faults>>

\* The remote backend answers one of the two selects of the load, with the
\* rows as they are at that moment or with an error (the gateway then
\* resolves to the empty list).
loadDataReply ==
    /\ \E i \in 1..Len(pending) : \E kind \in {"players", "matches"} : \E err \in BOOLEAN :
         /\ pending[i].h = "loadData"
         /\ pending[i].arg[kind] = Absent
         /\ MayFail(<<err>>)
         /\ LET res == IF kind = "players"
                       THEN getAllPlayers(cfg, supabase, ls, rdb, err)
                       ELSE getAllMatches(cfg, supabase, ls, rdb, err)
            IN  pending' = [pending EXCEPT ![i].arg[kind] = Some(res.value)]
    /\ UNCHANGED <<appfixed, now, memvars, ls, rdb>>

\* Promise.all has resolved: loadData is resumed and runs to its end.
loadDataResume ==
    /\ \E i \in 1..Len(pending) :
         /\ pending[i].h = "loadData"
         /\ pending[i].arg.players # Absent
         /\ pending[i].arg.matches # Absent
         /\ Commit(Loaded(Mem, pending[i].arg.players[1], pending[i].arg.matches[1]))
         /\ pending' = RemoveAt(pending, i)
    /\ UNCHANGED <<appfixed, faults, now, ls, rdb>>

\* What is left of the suspended handlers when the page is opened again.
\* A handler that awaits the narrative service, the answers to the selects
\* of the load, or the resumption after a call the store has answered, is
\* gone with the page.  A request that is on its way ("call") still reaches
\* the store, with no handler left to resume ("sent").
Abandoned(p) ==
    LET onWay == SelectSeq(p, LAMBDA x : x.phase \in {"call", "sent"})
    IN  ArrayOf([i \in 1..Len(onWay) |->
                    [onWay[i] EXCEPT !.phase = "sent", !.clo = NoClosure]],
                Len(onWay))

\* The page is opened again, at any moment: the component is constructed
\* anew over the store as it is.
Reload ==
    /\ pending' = Abandoned(pending)
    /\ players' = <<>>
    /\ matches' = <<>>
    /\ isLoading' = TRUE
    /\ activeTab' = "dashboard"
    /\ activeMatchId' = Absent
    /\ draftHomeIds' = <<>>
    /\ draftAwayIds' = <<>>
    /\ editingPlayerId' = Absent
    /\ editFormData' = Absent
    /\ generatingReport' = FALSE
    /\ UNCHANGED <<appfixed, faults, ls, rdb, now>>

\* The navigation buttons: live is offered while activeMatchId is set,
\* draft while it is not.  tabs holds the buttons the run's user presses.
setActiveTab(tabs) ==
    /\ ~isLoading
    /\ \E t \in tabs :
         /\ t # activeTab
         /\ t = "live" => activeMatchId # Absent
         /\ t = "draft" => activeMatchId = Absent
         /\ activeTab' = t
    /\ UNCHANGED <<appfixed, faults, ls, rdb, pending, now, players, matches, isLoading,
                   activeMatchId, draftHomeIds, draftAwayIds, editingPlayerId,
                   editFormData, generatingReport>>

NewPlayer(id, name) ==
    [id |-> id, name |-> name, position |-> PosMID, initialGoals |-> Some(0),
     initialAssists |-> Some(0), initialMatches |-> Some(0)]

handleAddPlayer(slots, places) ==
    /\ ~isLoading
    /\ activeTab = "players"
    /\ Len(players) + 1 \in places
    /\ Len(PersistedPlayers) + 1 \in places
    /\ \E newPlayerName \in AppNames :
         LET newPlayer == NewPlayer(now, newPlayerName)
         IN  Await("handleAddPlayer", newPlayer, Closure, Mem, slots)
    /\ UNCHANGED <<appfixed, now, faults>>

\* The delete button of a row that is not being edited, confirmed.
AppDeletePlayer(slots) ==
    /\ ~isLoading
    /\ activeTab = "players"
    /\ \E i \in 1..Len(players) :
         /\ editingPlayerId # Some(players[i].id)
         /\ Await("deletePlayer", players[i].id, Closure, Mem, slots)
    /\ UNCHANGED <<appfixed, now, faults>>

startEditing ==
    /\ ~isLoading
    /\ activeTab = "players"
    /\ \E i \in 1..Len(players) :
         /\ editingPlayerId # Some(players[i].id)
         /\ editingPlayerId' = Some(players[i].id)
         /\ editFormData' = Some([name |-> players[i].name,
                                  position |-> players[i].position,
                                  initialGoals |-> NumberOr0(players[i].initialGoals),
                                  initialAssists |-> NumberOr0(players[i].initialAssists),
                                  initialMatches |-> NumberOr0(players[i].initialMatches)])
    /\ UNCHANGED <<appfixed, faults, ls, rdb, pending, now, players, matches, isLoading,
                   activeTab, activeMatchId, draftHomeIds, draftAwayIds,
                   generatingReport>>

\* The row in edit mode is on screen when a player carries editingPlayerId.
EditRowShown ==
    /\ ~isLoading
    /\ activeTab = "players"
    /\ editingPlayerId # Absent
    /\ FindIndex(players, editingPlayerId[1]) # 0

\* onChange of the five controls of the edit row: the name input, the
\* position select, and the inputs of initial goals, assists and matches
\* (parseInt(e.target.value) || 0).  inputs holds the controls the run's
\* user changes.
EditInputs == {"name", "position", "initialGoals", "initialAssists", "initialMatches"}
EditValues(input) ==
    CASE input = "name" -> AppNames
      [] input = "position" -> AppPositions
      [] OTHER -> AppCounters
changeEditForm(inputs) ==
    /\ EditRowShown
    /\ \E input \in inputs : \E v \in EditValues(input) :
         /\ v # editFormData[1][input]
         /\ editFormData' = Some([editFormData[1] EXCEPT ![input] = v])
    /\ UNCHANGED <<appfixed, faults, ls, rdb, pending, now, players, matches, isLoading,
                   activeTab, activeMatchId, draftHomeIds, draftAwayIds,
                   editingPlayerId, generatingReport>>

cancelEdit ==
    /\ EditRowShown
    /\ editingPlayerId' = Absent
    /\ editFormData' = Absent
    /\ UNCHANGED <<appfixed, faults, ls, rdb, pending, now, players, matches, isLoading,
                   activeTab, activeMatchId, draftHomeIds, draftAwayIds,
                   generatingReport>>

saveEdit(slots) ==
    /\ EditRowShown
    /\ LET originalPlayer == players[FindIndex(players, editingPlayerId[1])]
           f == editFormData[1]
           updatedPlayer == [originalPlayer EXCEPT
                                !.name = f.name,
                                !.position = f.position,
                                !.initialGoals = Some(f.initialGoals),
                                !.initialAssists = Some(f.initialAssists),
                                !.initialMatches = Some(f.initialMatches)]
       IN  Await("saveEdit", updatedPlayer, Closure, Mem, slots)
    /\ UNCHANGED <<appfixed, now, faults>>

toggleDraftSelection ==
    /\ ~isLoading
    /\ activeTab = "draft"
    /\ \E i \in 1..Len(players) : \E side \in {"home", "away"} :
         LET playerId == players[i].id
             cleanHome == Without(draftHomeIds, playerId)
             cleanAway == Without(draftAwayIds, playerId)
         IN  IF side = "home"
             THEN IF Includes(draftHomeIds, playerId)
                  THEN draftHomeIds' = cleanHome /\ UNCHANGED draftAwayIds
                  ELSE draftHomeIds' = Append(cleanHome, playerId)
                       /\ draftAwayIds' = cleanAway
             ELSE IF Includes(draftAwayIds, playerId)
                  THEN draftAwayIds' = cleanAway /\ UNCHANGED draftHomeIds
                  ELSE draftAwayIds' = Append(cleanAway, playerId)
                       /\ draftHomeIds' = cleanHome
    /\ UNCHANGED <<appfixed, faults, ls, rdb, pending, now, players, matches, isLoading,
                   activeTab, activeMatchId, editingPlayerId, editFormData,
                   generatingReport>>

\* startMatch with an empty side: the alert, and the early return.  `call`
\* keeps the alert that was shown.
NeedPlayersAlert == "Necesitas al menos un jugador en cada equipo"
startMatchRefused ==
    /\ ~isLoading
    /\ activeTab = "draft"
    /\ draftHomeIds = <<>> \/ draftAwayIds = <<>>
    /\ call' = [op |-> "alert", text |-> NeedPlayersAlert,
                draftHomeIds |-> draftHomeIds, draftAwayIds |-> draftAwayIds]
    /\ UNCHANGED <<fvars, cfg, supabase, ai, inflight, ls, rdb, memvars, pending, now, faults>>

\* startMatch with a player on each side.
startMatch(slots) ==
    /\ ~isLoading
    /\ activeTab = "draft"
    /\ draftHomeIds # <<>>
    /\ draftAwayIds # <<>>
    /\ Len(matches) + 1 \in AppMatchPlaces
    /\ Len(PersistedMatches) + 1 \in AppMatchPlaces
    /\ LET newMatch == [id |-> now, homeTeamName |-> "Equipo A",
                        awayTeamName |-> "Equipo B",
                        homePlayerIds |-> draftHomeIds,
                        awayPlayerIds |-> draftAwayIds,
                        homeScore |-> 0, awayScore |-> 0, date |-> now,
                        isFinished |-> FALSE, events |-> <<>>,
                        aiAnalysis |-> Absent]
       IN  Await("startMatch", newMatch, Closure, Mem, slots)
    /\ UNCHANGED <<appfixed, now, faults>>

\* The match with the event put in front and the scores left alone.
UpdatedMatchScoresKept(activeMatch, newEvent) ==
    [activeMatch EXCEPT !.events = <<newEvent>> \o @]

\* updatedMatch of addEvent: the scores, one of them bumped by a goal, and
\* [newEvent, ...activeMatch.events].
UpdatedMatch(activeMatch, newEvent) ==
    LET goalHome == IF newEvent.type = GOAL /\ newEvent.side = "home" THEN 1 ELSE 0
        goalAway == IF newEvent.type = GOAL /\ newEvent.side # "home" THEN 1 ELSE 0
    IN  [activeMatch EXCEPT !.homeScore = @ + goalHome,
                            !.awayScore = @ + goalAway,
                            !.events = <<newEvent>> \o @]

\* The goal and assist buttons of the live view: one pair per listed player
\* of either roster.
addEvent(slots, places) ==
    /\ ~isLoading
    /\ activeTab = "live"
    /\ ActiveMatchIndex # 0
    /\ LET activeMatch == matches[ActiveMatchIndex]
       IN  /\ Len(activeMatch.events) + 1 \in places
           /\ \E type \in {GOAL, ASSIST} : \E side \in {"home", "away"} :
              \E i \in 1..Len(players) : \E minute \in AppMinutes :
                LET playerId == players[i].id
                    newEvent == [id |-> now, matchId |-> activeMatch.id, side |-> side,
                                 playerId |-> playerId, assistPlayerId |-> Absent,
                                 type |-> type, minute |-> minute, timestamp |-> now]
                    updatedMatch == UpdatedMatch(activeMatch, newEvent)
                IN  /\ Includes(IF side = "home" THEN activeMatch.homePlayerIds
                                ELSE activeMatch.awayPlayerIds, playerId)
                    /\ Await("addEvent", updatedMatch, Closure, Mem, slots)
    /\ UNCHANGED <<appfixed, now, faults>>

\* finishMatch, from the click to the answer of the narrative service.
\* Without a client the placeholder comes back at once and the gateway call
\* follows in the same step.
finishMatch(slots) ==
    /\ ~isLoading
    /\ activeTab = "live"
    /\ ActiveMatchIndex # 0
    /\ ~generatingReport
    /\ LET activeMatch == matches[ActiveMatchIndex]
           m == [Mem EXCEPT !.generatingReport = TRUE]
       IN  IF ai
           THEN /\ Len(pending) + 1 \in slots
                /\ pending' = Append(pending, [h |-> "finishMatch", phase |-> "report",
                                               arg |-> activeMatch, clo |-> Closure])
                /\ Commit(m)
                /\ UNCHANGED <<ls, rdb>>
           ELSE Await("finishMatch",
                      [activeMatch EXCEPT
                          !.isFinished = TRUE,
                          !.aiAnalysis = Some(generateMatchReport(FALSE, activeMatch, players,
                                                   [kind |-> "text", text |-> ""]).value)],
                      Closure, m, slots)
    /\ UNCHANGED <<appfixed, now, faults>>

\* generateMatchReport settles; finishMatch goes on to its gateway call.
FinishMatchReport ==
    /\ \E i \in 1..Len(pending) : \E reply \in AiReplies :
         /\ pending[i].phase = "report"
         /\ LET report == generateMatchReport(TRUE, pending[i].arg,
                                              pending[i].clo.players, reply).value
                finishedMatch == [pending[i].arg EXCEPT !.isFinished = TRUE,
                                                        !.aiAnalysis = Some(report)]
            IN  IF Remote
                THEN /\ pending' = [pending EXCEPT ![i].phase = "call",
                                                   ![i].arg = finishedMatch]
                     /\ UNCHANGED <<ls, rdb, memvars>>
                ELSE LET res == Gateway("finishMatch", finishedMatch, FALSE)
                     IN  /\ ls' = res.ls
                         /\ rdb' = res.rdb
                         /\ pending' = RemoveAt(pending, i)
                         /\ Commit(IF res.outcome = "resolved"
                                   THEN Then("finishMatch", finishedMatch,
                                             pending[i].clo, Mem)
                                   ELSE Mem)
    /\ UNCHANGED <<appfixed, now, faults>>

\* The remote backend carries out a call that is on its way, or answers it
\* with an error; the gateway logs the error and resolves all the same.  A
\* request of a page that is gone is carried out like any other and has
\* nobody to answer to.
GatewayReply ==
    /\ \E i \in 1..Len(pending) : \E err \in BOOLEAN :
         /\ pending[i].phase \in {"call", "sent"}
         /\ MayFail(<<err>>)
         /\ LET res == Gateway(pending[i].h, pending[i].arg, err)
            IN  /\ ls' = res.ls
                /\ rdb' = res.rdb
         /\ pending' = IF pending[i].phase = "call"
                       THEN [pending EXCEPT ![i].phase = "back"]
                       ELSE RemoveAt(pending, i)
    /\ UNCHANGED <<appfixed, now, memvars>>

\* A suspended handler is resumed after its gateway call has resolved.
Resume ==
    /\ \E i \in 1..Len(pending) :
         /\ pending[i].phase = "back"
         /\ Commit(Then(pending[i].h, pending[i].arg, pending[i].clo, Mem))
         /\ pending' = RemoveAt(pending, i)
    /\ UNCHANGED <<appfixed, faults, now, ls, rdb>>

\* ------------------------------------------------ the runs that are explored
\* The store is empty or holds what earlier sessions left; the component is
\* freshly constructed.
AppInit(storedPlayers, t) ==
    /\ FnIdleInit
    /\ cfg \in AppConfigs
    /\ supabase \in (IF isSupabaseConfigured(cfg) THEN {"client", "null"} ELSE {"null"})
    /\ ls = [players |-> IF isSupabaseConfigured(cfg) \/ storedPlayers = <<>>
                         THEN Null ELSE JSONstringify(storedPlayers),
             matches |-> Null]
    /\ rdb = [players |-> IF isSupabaseConfigured(cfg)
                          THEN ArrayOf([i \in 1..Len(storedPlayers) |->
                                           [id |-> storedPlayers[i].id,
                                            json |-> storedPlayers[i]]],
                                       Len(storedPlayers))
                          ELSE <<>>,
              matches |-> <<>>]
    /\ call = NoCall
    /\ inflight = <<>>
    /\ MemInit
    /\ pending = <<>>
    /\ now = t
    /\ faults = 0

\* The roster: the player handlers over a store that starts empty.  One
\* handler is suspended at a time.
RosterTabs == {"players"}
RosterPending == {1}
RosterInputs == {"name", "position", "initialGoals"}
InitRoster ==
    /\ AppInit(<<>>, 1)
    /\ ai = FALSE
NextRoster ==
    \/ Tick
    \/ loadData
    \/ loadDataReply
    \/ loadDataResume
    \/ Reload
    \/ setActiveTab(RosterTabs)
    \/ handleAddPlayer(RosterPending, AppPlayerPlaces)
    \/ AppDeletePlayer(RosterPending)
    \/ startEditing
    \/ changeEditForm(RosterInputs)
    \/ cancelEdit
    \/ saveEdit(RosterPending)
    \/ GatewayReply
    \/ Resume
SpecRoster == InitRoster /\ [][NextRoster]_vars

\* The match lifecycle: the store holds two players added in an earlier
\* session, at milliseconds 1 and 2.  One handler is suspended at a time.
\* The narrative client exists in runs that do not reach the remote backend.
StoredPlayers == <<NewPlayer(1, "a"), NewPlayer(2, "b")>>
MatchTabs == {"draft", "live"}
MatchPending == {1}
Init ==
    /\ AppInit(StoredPlayers, 2)
    /\ ai \in (IF supabase = "client" THEN {FALSE} ELSE BOOLEAN)
Next ==
    \/ Tick
    \/ loadData
    \/ loadDataReply
    \/ loadDataResume
    \/ Reload
    \/ setActiveTab(MatchTabs)
    \/ toggleDraftSelection
    \/ startMatch(MatchPending)
    \/ addEvent(MatchPending, AppEventPlaces)
    \/ finishMatch(MatchPending)
    \/ FinishMatchReport
    \/ GatewayReply
    \/ Resume
Spec == Init /\ [][Next]_vars

\* The roster view after the load of an empty store, with the player
\* handlers free to overlap (two may be suspended at once) and a backend
\* that answers every call without error.
OverlapPending == {1, 2}
OverlapPlayerPlaces == 1..1
OverlapInputs == {"name", "initialAssists", "initialMatches"}
InitOverlap ==
    /\ FnIdleInit
    /\ cfg \in AppConfigs
    /\ supabase = (IF isSupabaseConfigured(cfg) THEN "client" ELSE "null")
    /\ ai = FALSE
    /\ ls = [players |-> Null, matches |-> Null]
    /\ rdb = [players |-> <<>>, matches |-> <<>>]
    /\ call = NoCall
    /\ inflight = <<>>
    /\ players = <<>>
    /\ matches = <<>>
    /\ isLoading = FALSE
    /\ activeTab = "players"
    /\ activeMatchId = Absent
    /\ draftHomeIds = <<>>
    /\ draftAwayIds = <<>>
    /\ editingPlayerId = Absent
    /\ editFormData = Absent
    /\ generatingReport = FALSE
    /\ pending = <<>>
    /\ now = 1
    /\ faults = MaxFaults
NextOverlap ==
    \/ Tick
    \/ handleAddPlayer(OverlapPending, OverlapPlayerPlaces)
    \/ AppDeletePlayer(OverlapPending)
    \/ startEditing
    \/ changeEditForm(OverlapInputs)
    \/ cancelEdit
    \/ saveEdit(OverlapPending)
    \/ GatewayReply
    \/ Resume
SpecOverlap == InitOverlap /\ [][NextOverlap]_vars

\* The edit row: one player stored in an earlier session, every control of
\* the row in use.  One handler is suspended at a time.
EditTabs == {"players"}
EditPending == {1}
EditStoredPlayers == <<NewPlayer(1, "a")>>
InitEdit ==
    /\ AppInit(EditStoredPlayers, 2)
    /\ ai = FALSE
NextEdit ==
    \/ loadData
    \/ loadDataReply
    \/ loadDataResume
    \/ Reload
    \/ setActiveTab(EditTabs)
    \/ startEditing
    \/ changeEditForm(EditInputs)
    \/ cancelEdit
    \/ saveEdit(EditPending)
    \/ GatewayReply
    \/ Resume
SpecEdit == InitEdit /\ [][NextEdit]_vars

\* The draft view, with the start button pressed whatever the draft lists
\* hold.
DraftTabs == {"draft"}
DraftPending == {1}
DraftStoredPlayers == <<NewPlayer(1, "a"), NewPlayer(2, "b"), NewPlayer(3, "c")>>
InitDraft ==
    /\ AppInit(DraftStoredPlayers, 2)
    /\ ai = FALSE
NextDraft ==
    \/ Tick
    \/ loadData
    \/ loadDataReply
    \/ loadDataResume
    \/ setActiveTab(DraftTabs)
    \/ toggleDraftSelection
    \/ startMatchRefused
    \/ startMatch(DraftPending)
    \/ GatewayReply
    \/ Resume
SpecDraft == InitDraft /\ [][NextDraft]_vars

\* The live view: a match that startMatch has just created, with the event
\* and finish handlers free to overlap (two may be suspended at once).
LiveMatch ==
    [id |-> 1, homeTeamName |-> "Equipo A", awayTeamName |-> "Equipo B",
     homePlayerIds |-> <<1>>, awayPlayerIds |-> <<2>>,
     homeScore |-> 0, awayScore |-> 0, date |-> 1,
     isFinished |-> FALSE, events |-> <<>>, aiAnalysis |-> Absent]
LivePending == {1, 2}
LiveEventPlaces == 1..2
InitLive ==
    /\ FnIdleInit
    /\ cfg \in AppConfigs
    /\ supabase = (IF isSupabaseConfigured(cfg) THEN "client" ELSE "null")
    /\ ai \in (IF isSupabaseConfigured(cfg) THEN {FALSE} ELSE BOOLEAN)
    /\ ls = [players |-> IF isSupabaseConfigured(cfg) THEN Null
                         ELSE JSONstringify(StoredPlayers),
             matches |-> IF isSupabaseConfigured(cfg) THEN Null
                         ELSE JSONstringify(<<LiveMatch>>)]
    /\ rdb = [players |-> IF isSupabaseConfigured(cfg)
                          THEN ArrayOf([i \in 1..Len(StoredPlayers) |->
                                           [id |-> StoredPlayers[i].id,
                                            json |-> StoredPlayers[i]]],
                                       Len(StoredPlayers))
                          ELSE <<>>,
              matches |-> IF isSupabaseConfigured(cfg)
                          THEN <<[id |-> LiveMatch.id, json |-> LiveMatch]>>
                          ELSE <<>>]
    /\ call = NoCall
    /\ inflight = <<>>
    /\ players = StoredPlayers
    /\ matches = <<LiveMatch>>
    /\ isLoading = FALSE
    /\ activeTab = "live"
    /\ activeMatchId = Some(LiveMatch.id)
    /\ draftHomeIds = LiveMatch.homePlayerIds
    /\ draftAwayIds = LiveMatch.awayPlayerIds
    /\ editingPlayerId = Absent
    /\ editFormData = Absent
    /\ generatingReport = FALSE
    /\ pending = <<>>
    /\ now = 2
    /\ faults = 0
NextLive ==
    \/ Tick
    \/ addEvent(LivePending, LiveEventPlaces)
    \/ finishMatch(LivePending)
    \/ FinishMatchReport
    \/ GatewayReply
    \/ Resume
SpecLive == InitLive /\ [][NextLive]_vars

\* A live match with the roster view in reach: players are deleted before
\* and after the match takes events and is finished.  One handler is
\* suspended at a time.
DanglingTabs == {"players", "live"}
DanglingPending == {1}
NextDangling ==
    \/ Tick
    \/ setActiveTab(DanglingTabs)
    \/ AppDeletePlayer(DanglingPending)
    \/ addEvent(DanglingPending, AppEventPlaces)
    \/ finishMatch(DanglingPending)
    \/ FinishMatchReport
    \/ GatewayReply
    \/ Resume
SpecDangling == InitLive /\ [][NextDangling]_vars

\* ------------------------------------------------------ App properties
UnfinishedPersisted ==
    {i \in 1..Len(PersistedMatches) : ~PersistedMatches[i].isFinished}

\* C1: after any sequence of user actions, overlapping handler executions
\* included, at most one persisted match has isFinished = false.
C1_AtMostOneUnfinished == Cardinality(UnfinishedPersisted) <= 1

\* C2: whenever no gateway operation is pending, every player and every match
\* of the in-memory lists is in the persisted store with the same values.
C2_MemoryNotAhead ==
    (pending = <<>>) =>
        /\ \A i \in 1..Len(players) : Includes(PersistedPlayers, players[i])
        /\ \A i \in 1..Len(matches) : Includes(PersistedMatches, matches[i])

\* ---------------------------------------- harness: generateMatchReport
\* The function applied to a match of up to MaxReportEvents events and a
\* player list that may lack a player the events name.
MaxReportEvents == 2
ReportPlayerLists == {<<>>, <<NewPlayer(1, "a")>>, <<NewPlayer(1, "a"), NewPlayer(2, "b")>>}
ReportEvent(i, type, side, playerId, assist) ==
    [id |-> i, matchId |-> 1, side |-> side, playerId |-> playerId,
     assistPlayerId |-> assist, type |-> type, minute |-> 10 * i, timestamp |-> i]
ReportMatch(events, finished) ==
    [id |-> 1, homeTeamName |-> "Equipo A", awayTeamName |-> "Equipo B",
     homePlayerIds |-> <<1>>, awayPlayerIds |-> <<2>>,
     homeScore |-> Len(SelectSeq(events, LAMBDA e : e.type = GOAL /\ e.side = "home")),
     awayScore |-> Len(SelectSeq(events, LAMBDA e : e.type = GOAL /\ e.side = "away")),
     date |-> 1, isFinished |-> finished, events |-> events, aiAnalysis |-> Absent]

InitReport ==
    /\ fpc = "in"
    /\ \E client \in BOOLEAN, allPlayers \in ReportPlayerLists, n \in 0..MaxReportEvents :
       \E type \in [1..n -> {GOAL, ASSIST}], side \in [1..n -> {"home", "away"}],
          playerId \in [1..n -> 1..2], assist \in [1..n -> {Absent, Some(2)}] :
           fin = [client |-> client, allPlayers |-> allPlayers,
                  match |-> ReportMatch(
                      ArrayOf([i \in 1..n |->
                                  ReportEvent(n + 1 - i, type[i], side[i], playerId[i], assist[i])],
                              n), FALSE)]
    /\ fout = <<>>
    /\ DbIdleInit

\* One call; the service is asked only when the client exists.
CallGenerateMatchReport ==
    /\ fpc = "in"
    /\ \E reply \in (IF fin.client THEN AiReplies ELSE {[kind |-> "text", text |-> ""]}) :
         /\ fin' = [client |-> fin.client, allPlayers |-> fin.allPlayers,
                    match |-> fin.match, reply |-> reply]
         /\ fout' = generateMatchReport(fin.client, fin.match, fin.allPlayers, reply)
    /\ fpc' = "out"
    /\ UNCHANGED <<dbvars, appvars>>

NextReport == CallGenerateMatchReport

SpecReport == InitReport /\ [][NextReport]_vars

\* C14: generateMatchReport never raises; it resolves to the no-credential
\* placeholder without a client, to the connection-error placeholder when
\* the call fails, to the no-analysis placeholder when the answer has no
\* text, and to the service's text otherwise.
C14_ReportAlwaysResolves ==
    fpc = "out" =>
        /\ fout.outcome = "resolved"
        /\ fout.value =
             IF ~fin.client THEN NoKeyReport
             ELSE IF fin.reply.kind = "throws" THEN ErrorReport
             ELSE IF fin.reply.text = "" THEN NoTextReport
             ELSE fin.reply.text

\* The service throws on a request about a match with two events, one of
\* them by a player who is not in the list.
C14_Witness ==
    /\ fpc = "out"
    /\ fin.client
    /\ fin.reply.kind = "throws"
    /\ Len(fin.match.events) = 2
    /\ \E i \in 1..2 : ~HasId(fin.allPlayers, fin.match.events[i].playerId)
    /\ fout.value = ErrorReport

\* ------------------------------------------------ properties of the roster
DistinctIds(arr) == \A i, j \in 1..Len(arr) : i # j => arr[i].id # arr[j].id

\* C15 (as stated): after any sequence of add, edit and delete player
\* actions, with identifiers read from a clock that never goes back, no two
\* players of the in-memory list and no two of the persisted collection
\* share an identifier.
C15_PlayerIdsUnique ==
    /\ DistinctIds(players)
    /\ DistinctIds(PersistedPlayers)

\* ------------------------------------------ properties of the live match
\* The persisted matches that are finished.
PersistedFinished == {i \in 1..Len(PersistedMatches) : PersistedMatches[i].isFinished}

\* C16 (as stated): once a match is persisted with isFinished = true, the
\* next state persists every match of that identifier exactly as it was
\* (finished, same narrative, same events), and an in-memory match of that
\* identifier that was finished is still finished, whatever addEvent and
\* finishMatch handlers are under way.
C16_FinishedStaysFinished ==
    [][\A i \in PersistedFinished :
          LET m == PersistedMatches[i]
          IN  /\ \A j \in 1..Len(PersistedMatches') :
                     PersistedMatches'[j].id = m.id => PersistedMatches'[j] = m
              /\ (\A k \in 1..Len(matches) : matches[k].id = m.id => matches[k].isFinished)
                     => (\A k \in 1..Len(matches') :
                            matches'[k].id = m.id => matches'[k].isFinished)]_vars
\* C17 (as stated): an event once persisted stays, unaltered, in
\* the persisted event list of its match, whatever handlers are under way;
\* and when no handler is suspended every event that addEvent has put in an
\* in-memory match is in the persisted event list of that match.
C17_EventsKept ==
    [][/\ \A i \in 1..Len(PersistedMatches) : \A j \in 1..Len(PersistedMatches') :
             PersistedMatches'[j].id = PersistedMatches[i].id =>
                 \A e \in Range(PersistedMatches[i].events) :
                     Count(PersistedMatches'[j].events, e) >= 1
       /\ pending' = <<>> =>
             \A k \in 1..Len(matches') : \A j \in 1..Len(PersistedMatches') :
                 PersistedMatches'[j].id = matches'[k].id =>
                     \A e \in Range(matches'[k].events) :
                         Count(PersistedMatches'[j].events, e) >= 1]_vars

\* C20 (as stated): the chronology of the prompt that a finishMatch under
\* way has sent renders the events of its match one line each, an event
\* that addEvent recorded earlier on an earlier line.
C20_PromptOldestFirst ==
    \A k \in 1..Len(pending) :
        pending[k].phase = "report" =>
            LET match == pending[k].arg
                allPlayers == pending[k].clo.players
                lines == Prompt(match, allPlayers).chronology
            IN  /\ Len(lines) = Len(match.events)
                /\ \A i, j \in 1..Len(lines) :
                       i < j =>
                           /\ lines[i] = EventLine(match, allPlayers, match.events[i])
                           /\ lines[j] = EventLine(match, allPlayers, match.events[j])
                           /\ match.events[i].timestamp <= match.events[j].timestamp

\* ------------------------------------------------ properties of the draft
\* C18 (as stated): startMatch with an empty side adds no match to the
\* store or to the list and leaves activeMatchId and the tab alone; with a
\* player on each side, once it has made its match the active one, the
\* store holds exactly one match of that identifier, 0-0, without events
\* and not finished, the list holds it first, and the live tab shows.
C18_StartMatch ==
    [][/\ (call' # call /\ call'.op = "alert") =>
              /\ PersistedMatches' = PersistedMatches
              /\ matches' = matches
              /\ activeMatchId' = activeMatchId
              /\ activeTab' = activeTab
       /\ (~isLoading /\ activeMatchId = Absent /\ activeMatchId' # Absent) =>
              LET id == activeMatchId'[1]
                  stored == SelectSeq(PersistedMatches', LAMBDA m : m.id = id)
              IN  /\ Len(stored) = 1
                  /\ stored[1].homeScore = 0
                  /\ stored[1].awayScore = 0
                  /\ stored[1].events = <<>>
                  /\ ~stored[1].isFinished
                  /\ matches' # <<>>
                  /\ matches'[1] = stored[1]
                  /\ activeTab' = "live"]_vars

NoDuplicate(ids) == \A i, j \in 1..Len(ids) : i # j => ids[i] # ids[j]
Disjoint(a, b) == Range(a) \cap Range(b) = {}
DisjointRosters(ms) ==
    \A i \in 1..Len(ms) : Disjoint(ms[i].homePlayerIds, ms[i].awayPlayerIds)

\* C19: after any toggleDraftSelection calls from empty draft lists, the
\* two draft lists share no identifier and neither holds one twice; every
\* match startMatch has made, in the list, in the store or on its way to
\* the store, has disjoint home and away rosters.
C19_DraftsDisjoint ==
    /\ NoDuplicate(draftHomeIds)
    /\ NoDuplicate(draftAwayIds)
    /\ Disjoint(draftHomeIds, draftAwayIds)
    /\ DisjointRosters(matches)
    /\ DisjointRosters(PersistedMatches)
    /\ \A i \in 1..Len(pending) :
           pending[i].h = "startMatch" =>
               Disjoint(pending[i].arg.homePlayerIds, pending[i].arg.awayPlayerIds)

\* A persisted match of two against one, drafted in an order that is not
\* the roster's.
C19_Witness ==
    /\ Len(PersistedMatches) = 1
    /\ PersistedMatches[1].homePlayerIds = <<3, 1>>
    /\ PersistedMatches[1].awayPlayerIds = <<2>>
    /\ activeMatchId = Some(PersistedMatches[1].id)

\* ------------------------------------------------ properties of the score
GoalsOf(m, side) == Len(SelectSeq(m.events, LAMBDA e : e.type = GOAL /\ e.side = side))
ScoreIsGoalCount(m) ==
    /\ m.homeScore = GoalsOf(m, "home")
    /\ m.awayScore = GoalsOf(m, "away")
MatchOfId(ms, id) == ms[FindIndex(ms, id)]

\* C21: in every state, every match in memory, in the store or on its way
\* to the store has homeScore equal to the number of its home goals and
\* awayScore to the number of its away goals; the event list an addEvent
\* writes is its new event followed by the events the handler found.
C21_ScoreIsGoalCount ==
    /\ [](/\ \A i \in 1..Len(matches) : ScoreIsGoalCount(matches[i])
          /\ \A i \in 1..Len(PersistedMatches) : ScoreIsGoalCount(PersistedMatches[i])
          /\ \A k \in 1..Len(pending) :
                 /\ pending[k].h \in {"addEvent", "finishMatch"} =>
                        ScoreIsGoalCount(pending[k].arg)
                 /\ pending[k].h = "addEvent" =>
                        /\ pending[k].arg.events # <<>>
                        /\ Tail(pending[k].arg.events) =
                               MatchOfId(pending[k].clo.matches, pending[k].arg.id).events)
    /\ [][(Local /\ Len(matches'[1].events) > Len(matches[1].events)) =>
              /\ Tail(matches'[1].events) = matches[1].events
              /\ PersistedMatches'[1].events = matches'[1].events]_vars

\* A persisted match of two events, a home goal and an away goal, 1-1.
C21_Witness ==
    /\ Len(PersistedMatches) = 1
    /\ Len(PersistedMatches[1].events) = 2
    /\ PersistedMatches[1].homeScore = 1
    /\ PersistedMatches[1].awayScore = 1
    /\ PersistedMatches[1].events[1].timestamp > PersistedMatches[1].events[2].timestamp

\* What generateMatchReport can resolve to for this build.
AdapterStrings ==
    {generateMatchReport(ai, LiveMatch, <<>>, reply).value : reply \in AiReplies}

\* C22 (as stated): in the step in which finishMatch completes (it clears
\* activeMatchId), the persisted record of the match that was active is
\* finished and its narrative is the string the adapter returned, the one
\* the handler has put in the in-memory match.
C22_FinishCompletes ==
    [][(activeMatchId # Absent /\ activeMatchId' = Absent) =>
          LET id == activeMatchId[1]
              stored == SelectSeq(PersistedMatches', LAMBDA m : m.id = id)
              shown == SelectSeq(matches', LAMBDA m : m.id = id)
          IN  /\ stored # <<>>
              /\ \A i \in 1..Len(stored) :
                     /\ stored[i].isFinished
                     /\ stored[i].aiAnalysis # Absent
                     /\ stored[i].aiAnalysis[1] \in AdapterStrings
                     /\ \A j \in 1..Len(shown) :
                            stored[i].aiAnalysis = shown[j].aiAnalysis]_vars

\* ------------------------------------------------ properties of the load
\* C23 (as stated): in the step that completes the initial load,
\* activeMatchId becomes the identifier of a persisted unfinished match if
\* there is one and is null otherwise; until then no handler but the load
\* runs: the React state stays as it is, no mutation is called, and the
\* store changes only by a request that a page opened earlier had sent.
C23_LoadResumesUnfinished ==
    [][/\ (isLoading /\ ~isLoading') =>
              IF UnfinishedPersisted # {}
              THEN /\ activeMatchId' # Absent
                   /\ \E i \in UnfinishedPersisted :
                          PersistedMatches[i].id = activeMatchId'[1]
              ELSE activeMatchId' = Absent
       /\ isLoading =>
              /\ \A i \in 1..Len(pending') :
                     pending'[i].h = "loadData" \/ pending'[i].phase = "sent"
              /\ (ls' # ls \/ rdb' # rdb) =>
                     \E i \in 1..Len(pending) :
                         pending[i].phase = "sent" /\ pending' = RemoveAt(pending, i)
              /\ isLoading' => memvars' = memvars]_vars

\* C24 (as stated): once every player handler has completed, none of them
\* having met a backend error, the in-memory player list holds exactly the
\* entities of the persisted player collection.  States in which two
\* players were given the same identifier are left to C15.
C24_NoLostUpdate ==
    (pending = <<>> /\ DistinctIds(players) /\ DistinctIds(PersistedPlayers)) =>
        SameContents(players, PersistedPlayers)

\* ------------------------------------- properties of the remote-only file
\* C25 (as stated): in the remote-only file without a client, every
\* mutation leaves the persisted state as it was and alerts the user, and
\* both list operations return the empty sequence.
C25_NoClientDegrades ==
    (call.op # "none" /\ cfg.variant = "remoteOnly" /\ supabase = "null") =>
        /\ call.outcome = "resolved"
        /\ ls = call.preLs
        /\ rdb = call.preRdb
        /\ IsMutation => call.alert
        /\ IsListOp => call.value = <<>>

\* C25 (amended): in the remote-only file without a client, every mutation
\* leaves the persisted state as it was, addPlayer and no other operation
\* alerts the user, and both list operations return the empty sequence.
C25_NoClientOnlyAddAlerts ==
    (call.op # "none" /\ cfg.variant = "remoteOnly" /\ supabase = "null") =>
        /\ call.outcome = "resolved"
        /\ ls = call.preLs
        /\ rdb = call.preRdb
        /\ call.alert <=> call.op = "addPlayer"
        /\ IsListOp => call.value = <<>>

\* The remote-only file with a URL that has the prefix and a client that
\* could not be constructed: addPlayer has alerted and stored nothing.
C25_Witness ==
    /\ cfg.variant = "remoteOnly"
    /\ cfg.urlHttps
    /\ supabase = "null"
    /\ call.op = "addPlayer"
    /\ call.alert
    /\ rdb = call.preRdb

\* -------------------------- harness: the leaderboard over partial players
\* Players as older versions stored them too: any manual counter may be
\* missing.  Identifiers are distinct.
BoardSizes == 0..2
BoardCounters == {Absent, Some(0), Some(2)}
BoardFlags == {Absent, Some(1)}
BoardPlayers(i) ==
    {[id |-> i, name |-> "n", position |-> pos, initialGoals |-> g,
      initialAssists |-> a, initialMatches |-> m, initialSaves |-> sv,
      initialClearances |-> c] :
        pos \in {PosGK, PosFWD}, g \in BoardCounters, a \in BoardCounters,
        sv \in BoardCounters, m \in BoardFlags, c \in BoardFlags}

InitBoard ==
    /\ fpc = "in"
    /\ \E n \in BoardSizes :
         \E p1 \in BoardPlayers(1), p2 \in BoardPlayers(2) :
             fin = SubSeq(<<p1, p2>>, 1, n)
    /\ fout = <<>>
    /\ DbIdleInit

NextBoard == ComputeLeaderboard

SpecBoard == InitBoard /\ [][NextBoard]_vars

\* C26: the players-only leaderboard has exactly one record per player, and
\* each record's goals, assists, matches, saves and clearances are the
\* player's manual counters, a missing one counting as 0, and its ga is
\* goals + assists.
C26_BaselineRecords ==
    fpc = "out" =>
        /\ Len(fout) = Len(fin)
        /\ \A i \in 1..Len(fin) :
               Cardinality({j \in 1..Len(fout) : fout[j].id = fin[i].id}) = 1
        /\ \A j \in 1..Len(fout) :
               LET p == fout[j].player
                   Base(x) == IF x = Absent THEN 0 ELSE x[1]
               IN  /\ Count(fin, p) = 1
                   /\ fout[j].id = p.id
                   /\ fout[j].goals = Base(p.initialGoals)
                   /\ fout[j].assists = Base(p.initialAssists)
                   /\ fout[j].matches = Base(p.initialMatches)
                   /\ fout[j].saves = Base(p.initialSaves)
                   /\ fout[j].clearances = Base(p.initialClearances)
                   /\ fout[j].ga = fout[j].goals + fout[j].assists

\* Two players put in the other order by the sort, the first of the board
\* with goals and assists and without a saves or clearances counter.
C26_Witness ==
    /\ fpc = "out"
    /\ Len(fout) = 2
    /\ fout[1].id = 2
    /\ fout[1].player.initialSaves = Absent
    /\ fout[1].player.initialClearances = Absent
    /\ fout[1].goals = 2
    /\ fout[1].ga = 4
    /\ fout[2].player.initialGoals = Absent

\* C27: the leaderboard of the matches variant is ordered by derived goals,
\* descending: an entry placed before another has at least as many goals.
C27_GoalsDescending ==
    fpc = "out" /\ "matches" \in DOMAIN fin =>
        \A i \in 1..Len(fout) : \A j \in 1..Len(fout) :
            i < j => fout[i].goals >= fout[j].goals

\* Players "1" and "2", which the object lists in that order; a finished
\* match gives player 2 more goals than player 1, and the sort puts 2 first.
C27_Witness ==
    /\ fpc = "out"
    /\ "matches" \in DOMAIN fin
    /\ Len(fin.players) = 2
    /\ Len(fout) = 2
    /\ fout[1].id = 2
    /\ fout[2].id = 1
    /\ fout[1].goals > NumberOr0(fout[1].player[1].initialGoals)
    /\ fout[1].goals > fout[2].goals

\* A step of deletePlayer: its click, the backend's answer to its call, or
\* its resumption.  On the local backend the three are one step, the only
\* one of these runs that changes the player list.
DeletePlayerStep ==
    \/ Local /\ players' # players
    \/ /\ Len(pending') = Len(pending) + 1
       /\ pending'[Len(pending')].h = "deletePlayer"
    \/ \E i \in 1..Len(pending) :
         /\ pending[i].h = "deletePlayer"
         /\ \/ pending' = RemoveAt(pending, i)
            \/ /\ Len(pending') = Len(pending)
               /\ pending'[i].phase # pending[i].phase

\* The matches with every roster entry and every event of a player that is
\* not in ps taken out.
Known(ps, id) == HasRow(ps, id)
Purge(ms, ps) ==
    ArrayOf([i \in 1..Len(ms) |->
                [ms[i] EXCEPT
                    !.homePlayerIds = SelectSeq(@, LAMBDA id : Known(ps, id)),
                    !.awayPlayerIds = SelectSeq(@, LAMBDA id : Known(ps, id)),
                    !.events = SelectSeq(@, LAMBDA e : Known(ps, e.playerId))]],
            Len(ms))

\* C28: no step of deletePlayer changes a match, in memory or in the
\* store; the aggregator gives no record to an identifier that is not in
\* the player list and counts as if the rosters and events naming it were
\* not there; the narrative adapter names such a player "Jugador
\* Desconocido".
C28_DanglingIdHandled ==
    /\ [](LET st == stats(players, matches)
          IN  /\ \A k \in 1..Len(st) : Known(players, st[k].id)
              /\ st = stats(players, Purge(matches, players))
              /\ \A i \in 1..Len(matches) :
                   LET prompt == Prompt(matches[i], players)
                       goals == SelectSeq(matches[i].events, LAMBDA e : e.type = GOAL)
                   IN  /\ \A k \in 1..Len(matches[i].events) :
                              ~Known(players, matches[i].events[k].playerId) =>
                                  prompt.chronology[k].playerName = UnknownPlayer
                       /\ \A k \in 1..Len(goals) :
                              ~Known(players, goals[k].playerId) =>
                                  prompt.scorers[k] = UnknownPlayer)
    /\ [][DeletePlayerStep =>
            matches' = matches /\ PersistedMatches' = PersistedMatches]_vars

\* The scorer of a finished match has been deleted: the match still holds
\* the goal and both roster entries, in memory and in the store, and the one
\* player left has the only record.
C28_Witness ==
    /\ pending = <<>>
    /\ Len(players) = 1
    /\ Len(PersistedPlayers) = 1
    /\ Len(matches) = 1
    /\ matches = PersistedMatches
    /\ matches[1].isFinished
    /\ matches[1].homePlayerIds = <<1>>
    /\ Len(matches[1].events) = 1
    /\ matches[1].events[1].type = GOAL
    /\ matches[1].events[1].playerId = 1
    /\ ~Known(players, 1)
    /\ Len(stats(players, matches)) = 1
    /\ Prompt(matches[1], players).scorers = <<UnknownPlayer>>

\* C29: whenever no handler is pending, activeMatchId names exactly one
\* in-memory match, an unfinished one, or it is null and no in-memory match
\* is unfinished.
C29_ActiveIsTheUnfinished ==
    pending = <<>> =>
        IF activeMatchId # Absent
        THEN /\ Cardinality({i \in 1..Len(matches) : matches[i].id = activeMatchId[1]}) = 1
             /\ \A i \in 1..Len(matches) :
                    matches[i].id = activeMatchId[1] => ~matches[i].isFinished
        ELSE \A i \in 1..Len(matches) : matches[i].isFinished

\* The matches without their Assist-type events.
WithoutAssistEvents(ms) ==
    ArrayOf([i \in 1..Len(ms) |->
                [ms[i] EXCEPT !.events = SelectSeq(@, LAMBDA e : e.type # ASSIST)]],
            Len(ms))
AssistsAreBaseline(ms) ==
    LET st == stats(players, ms)
    IN  /\ \A k \in 1..Len(st) :
               st[k].assists = NumberOr0(st[k].player[1].initialAssists)
        /\ st = stats(players, WithoutAssistEvents(ms))
NoAssistingPlayer(m) ==
    \A k \in 1..Len(m.events) : m.events[k].assistPlayerId = Absent

\* C30: for matches built by startMatch, addEvent and finishMatch, every
\* player's derived assists equal the baseline assists; no event has an
\* assisting player; an Assist-type event leaves both scores as the
\* handler found them and the derived goals, assists and matches are those
\* of the same matches without the Assist-type events.
C30_AssistsStayBaseline ==
    /\ [](/\ AssistsAreBaseline(matches)
          /\ AssistsAreBaseline(PersistedMatches)
          /\ \A i \in 1..Len(matches) : NoAssistingPlayer(matches[i])
          /\ \A i \in 1..Len(PersistedMatches) : NoAssistingPlayer(PersistedMatches[i])
          /\ \A k \in 1..Len(pending) :
                 /\ NoAssistingPlayer(pending[k].arg)
                 /\ (pending[k].h = "addEvent" /\ Head(pending[k].arg.events).type = ASSIST) =>
                        LET found == MatchOfId(pending[k].clo.matches, pending[k].arg.id)
                        IN  /\ pending[k].arg.homeScore = found.homeScore
                            /\ pending[k].arg.awayScore = found.awayScore)
    /\ [][(/\ Local
           /\ Len(matches'[1].events) > Len(matches[1].events)
           /\ Head(matches'[1].events).type = ASSIST) =>
              /\ matches'[1].homeScore = matches[1].homeScore
              /\ matches'[1].awayScore = matches[1].awayScore
              /\ PersistedMatches'[1].homeScore = PersistedMatches[1].homeScore
              /\ PersistedMatches'[1].awayScore = PersistedMatches[1].awayScore]_vars

\* A finished match, stored and in memory, with a goal of player 1 and then
\* an Assist-type event of player 2: player 2 has played one match and has
\* the assists it started with.
C30_Witness ==
    /\ pending = <<>>
    /\ Len(matches) = 1
    /\ matches = PersistedMatches
    /\ matches[1].isFinished
    /\ Len(matches[1].events) = 2
    /\ matches[1].events[1].type = ASSIST
    /\ matches[1].events[1].playerId = 2
    /\ matches[1].events[2].type = GOAL
    /\ matches[1].homeScore = 1
    /\ matches[1].awayScore = 0
    /\ \E k \in 1..Len(stats(players, matches)) :
           LET r == stats(players, matches)[k]
           IN  r.id = 2 /\ r.matches = 1 /\ r.assists = 0 /\ r.goals = 0

====
